---- MODULE Spec2Model ----
(***************************************************************************)
(* Model of the Odoo -> Google Sheet export scripts of this repository:    *)
(* the field resolver get_string_value (one copy per script), the record   *)
(* flatteners, and the operations built on them.                           *)
(*                                                                         *)
(* Python values are tagged records:                                       *)
(*   [t |-> "none"]                      None                              *)
(*   [t |-> "bool",  b |-> TRUE]         True / False                      *)
(*   [t |-> "int",   n |-> 7]            an int                            *)
(*   [t |-> "float", tenths |-> 25]      the float 2.5                     *)
(*   [t |-> "str",   s |-> "SO1"]        a str                             *)
(*   [t |-> "list",  items |-> <<..>>]   a list                            *)
(*   [t |-> "tuple", items |-> <<..>>]   a tuple                           *)
(*   [t |-> "dict",  items |-> <<[k |-> "name", v |-> ..], ..>>]           *)
(*                                       a dict, in insertion order        *)
(*   [t |-> "callable", f |-> "quantity"] a function object                *)
(*   [t |-> "raise", exc |-> "TypeError"] the outcome "an exception was    *)
(*                                       raised" of evaluating an          *)
(*                                       expression                        *)
(***************************************************************************)
EXTENDS Integers, Sequences, FiniteSets, TLC

VARIABLES
    op,         \* the operation that ran last ("idle" before any)
    script,     \* the script whose copy of the operation ran
    field,      \* get_string_value: argument field
    subfield,   \* get_string_value: argument subfield
    resolved,   \* get_string_value: outcome (a str, or a raised exception)
    records,    \* flatten_records: argument records
    field_map,  \* flatten_records (AR_Report): argument field_map
    line_to_data_fallback,
                \* flatten_records (FG_Dispatch): argument line_to_data_fallback
    flat_rows,  \* flatten_records: outcome (a list of rows, or a raised exception)
    dataframe,  \* aggregation: df, the DataFrame built from the flat rows
    grouped,    \* aggregation: outcome (a DataFrame, None for "no table", or
                \* a raised exception)
    upstream,   \* paginated fetch: the records that match the query, in the
                \* order the server serves them
    batch_size, \* paginated fetch: the page size (batch_size, limit)
    offset,     \* paginated fetch: offset of the next request
    all_records,
                \* paginated fetch: the records collected so far
    requests,   \* paginated fetch: the offsets requested so far, in order
    pages,      \* paginated fetch: the pages received so far, in order
    fetched,    \* paginated fetch: outcome (the returned list, or a raised
                \* exception; None while the loop runs)
    retries,    \* retry loop: retries
    company,    \* retry loop (OA_ITEM_WISE): position in company_map
    attempts,   \* retry loop: the attempts made so far, in order, each the
                \* unit of work attempted and how the attempt ended
    exit_status,
                \* retry loop: "running", or how the script ended: "ok", or
                \* "error" for an exception that propagated
    worksheet,  \* sheet writer: the cells of the worksheet, by <<row, column>>
    old_rows,   \* sheet writer: the data rows of the table the previous run
                \* wrote (0: the worksheet was never written)
    new_rows,   \* sheet writer: the data rows of the table to write
    paste_pc,   \* sheet writer: the call to make next, or how the writer ended
    flat_rows_again,
                \* flatten_records: outcome of a second call on the records
                \* the first call left (None before that call)
    records_of_company,
                \* retry loop (FG_Dispatch): the records upstream holds for
                \* each company of companies, by position
    all_records_FG,
                \* retry loop (FG_Dispatch): all_records of __main__ as the
                \* last attempt left it
    unique_line_ids_for_fallback,
                \* retry loop (FG_Dispatch): unique_line_ids_for_fallback as
                \* the last attempt left it
    matched_throughout,
                \* paginated fetch: the records that have matched the query
                \* since the call
    changes     \* paginated fetch: the number of insertions and deletions
                \* upstream since the call

fetch_vars == <<upstream, batch_size, offset, all_records, requests, pages, fetched>>
retry_vars == <<retries, company, attempts, exit_status>>
sheet_vars == <<worksheet, old_rows, new_rows, paste_pc>>
again_vars == <<flat_rows_again>>
acc_vars == <<records_of_company, all_records_FG, unique_line_ids_for_fallback>>
change_vars == <<matched_throughout, changes>>

vars == <<op, script, field, subfield, resolved, records, field_map,
          line_to_data_fallback, flat_rows, dataframe, grouped,
          fetch_vars, retry_vars, sheet_vars, again_vars, acc_vars,
          change_vars>>

(***************************************************************************)
(* Bounds of the explored input space.                                     *)
(***************************************************************************)
MaxInt == 1
MaxParsed == 9
MaxListLen == 2
MaxKeys == 2
MaxRecords == 2
MaxGroupRows == 3
MaxLines == 2
MaxUpstream == 4
MaxBatch == 3
MaxDataRows == 2
SheetCols == 36

(***************************************************************************)
(* Python values and the built-in operations the scripts use.              *)
(***************************************************************************)
PyNone == [t |-> "none"]
PyBool(b) == [t |-> "bool", b |-> b]
PyInt(n) == [t |-> "int", n |-> n]
PyFloat(tenths) == [t |-> "float", tenths |-> tenths]
PyStr(s) == [t |-> "str", s |-> s]
PyList(items) == [t |-> "list", items |-> items]
PyDict(items) == [t |-> "dict", items |-> items]
PyTuple(items) == [t |-> "tuple", items |-> items]
PyCallable(f) == [t |-> "callable", f |-> f]
Raised(exc) == [t |-> "raise", exc |-> exc]

PyFalse == PyBool(FALSE)
PyTrue == PyBool(TRUE)
IsRaised(v) == v.t = "raise"

\* isinstance(v, dict), isinstance(v, list), isinstance(v, int): bool is a
\* subclass of int, so isinstance(False, int) is True.
isinstance_dict(v) == v.t = "dict"
isinstance_list(v) == v.t = "list"
isinstance_int(v) == v.t \in {"int", "bool"}

\* bool(v): the truth value of v.
Truthy(v) ==
    CASE v.t = "none" -> FALSE
      [] v.t = "bool" -> v.b
      [] v.t = "int" -> v.n # 0
      [] v.t = "float" -> v.tenths # 0
      [] v.t = "str" -> v.s # ""
      [] v.t = "list" -> Len(v.items) > 0
      [] v.t = "tuple" -> Len(v.items) > 0
      [] v.t = "dict" -> Len(v.items) > 0
      [] OTHER -> TRUE

\* a or b (a raised a propagates: Truthy is TRUE of it)
py_or(a, b) == IF Truthy(a) THEN a ELSE b

\* v in (False, None): v == False or v is None; 0 and 0.0 equal False.
in_False_None(v) ==
    \/ v.t = "none"
    \/ v.t = "bool" /\ ~v.b
    \/ v.t = "int" /\ v.n = 0
    \/ v.t = "float" /\ v.tenths = 0

Digit(d) ==
    CASE d = 0 -> "0" [] d = 1 -> "1" [] d = 2 -> "2" [] d = 3 -> "3"
      [] d = 4 -> "4" [] d = 5 -> "5" [] d = 6 -> "6" [] d = 7 -> "7"
      [] d = 8 -> "8" [] d = 9 -> "9"

RECURSIVE NatToStr(_)
NatToStr(n) == IF n < 10 THEN Digit(n) ELSE NatToStr(n \div 10) \o Digit(n % 10)

\* str(n) of an int: its decimal form.
IntToStr(n) == IF n < 0 THEN "-" \o NatToStr(-n) ELSE NatToStr(n)

\* str(x) of a float with one decimal digit.
FloatToStr(tenths) ==
    IF tenths < 0
        THEN "-" \o NatToStr((-tenths) \div 10) \o "." \o Digit((-tenths) % 10)
        ELSE NatToStr(tenths \div 10) \o "." \o Digit(tenths % 10)

\* sep.join(strs) for a sequence of strings.
RECURSIVE join(_, _)
join(sep, strs) ==
    IF Len(strs) = 0 THEN ""
    ELSE IF Len(strs) = 1 THEN strs[1]
    ELSE strs[1] \o sep \o join(sep, Tail(strs))

\* repr(v): what str() of a container shows for its elements.
RECURSIVE repr(_)
repr(v) ==
    CASE v.t = "none" -> "None"
      [] v.t = "bool" -> (IF v.b THEN "True" ELSE "False")
      [] v.t = "int" -> IntToStr(v.n)
      [] v.t = "float" -> FloatToStr(v.tenths)
      [] v.t = "str" -> "'" \o v.s \o "'"
      [] v.t = "list" ->
            "[" \o join(", ", [i \in 1..Len(v.items) |-> repr(v.items[i])]) \o "]"
      [] v.t = "tuple" ->
            IF Len(v.items) = 1 THEN "(" \o repr(v.items[1]) \o ",)"
            ELSE "(" \o join(", ", [i \in 1..Len(v.items) |-> repr(v.items[i])]) \o ")"
      [] v.t = "dict" ->
            "{" \o join(", ", [i \in 1..Len(v.items) |->
                       "'" \o v.items[i].k \o "': " \o repr(v.items[i].v)]) \o "}"
      [] OTHER -> "<function>"

\* str(v), as a Python str object; an operand that raised makes the call raise.
str(v) ==
    IF IsRaised(v) THEN v
    ELSE IF v.t = "str" THEN v
    ELSE PyStr(repr(v))

\* key in d, for a dict d.
contains_key(d, key) == \E i \in 1..Len(d.items) : d.items[i].k = key

\* d[key], for a dict d: KeyError when d does not hold key.
getitem(d, key) ==
    IF contains_key(d, key)
        THEN d.items[CHOOSE i \in 1..Len(d.items) : d.items[i].k = key].v
        ELSE Raised("KeyError")

\* hash(v) succeeds: lists and dicts are unhashable, a tuple is hashable when
\* its elements are.
RECURSIVE hashable(_)
hashable(v) ==
    CASE v.t \in {"list", "dict"} -> FALSE
      [] v.t = "tuple" -> \A i \in 1..Len(v.items) : hashable(v.items[i])
      [] OTHER -> TRUE

\* obj.get(key, default): AttributeError when obj has no get method (it is
\* not a dict), TypeError when key is unhashable. An obj whose evaluation
\* raised propagates.
method_get(obj, key, default) ==
    IF IsRaised(obj) THEN obj
    ELSE IF obj.t # "dict" THEN Raised("AttributeError")
    ELSE IF ~hashable(key) THEN Raised("TypeError")
    ELSE IF key.t = "str" /\ contains_key(obj, key.s) THEN getitem(obj, key.s)
    ELSE default

\* d.values(), for a dict d: its values in insertion order.
values(d) == [i \in 1..Len(d.items) |-> d.items[i].v]

\* The elements "for x in v" visits, as a list: TypeError when v is not
\* iterable. A dict iterates over its keys.
py_iter(v) ==
    CASE IsRaised(v) -> v
      [] v.t \in {"list", "tuple"} -> PyList(v.items)
      [] v.t = "dict" -> PyList([i \in 1..Len(v.items) |-> PyStr(v.items[i].k)])
      [] v.t = "str" /\ v.s = "" -> PyList(<<>>)
      [] v.t \in {"none", "bool", "int", "float", "callable"} -> Raised("TypeError")

\* The dict display {k1: v1, k2: v2, ...}: the values are evaluated in order,
\* and the first one that raises makes the display raise.
make_dict(items) ==
    IF \E i \in 1..Len(items) : IsRaised(items[i].v)
        THEN items[CHOOSE i \in 1..Len(items) :
                     /\ IsRaised(items[i].v)
                     /\ \A j \in 1..(i - 1) : ~IsRaised(items[j].v)].v
        ELSE PyDict(items)

\* The list a loop builds by appending the rows of each iteration, given the
\* outcome of each iteration (a list of rows, or a raised exception): the
\* first iteration that raises ends the loop and the exception propagates.
RECURSIVE concat(_)
concat(parts) ==
    IF Len(parts) = 0 THEN PyList(<<>>)
    ELSE IF IsRaised(Head(parts)) THEN Head(parts)
    ELSE LET rest == concat(Tail(parts))
         IN  IF IsRaised(rest) THEN rest
             ELSE PyList(Head(parts).items \o rest.items)

\* flat_rows.append(row) for one row: the row alone, or the exception its
\* evaluation raised.
one_row(row) == IF IsRaised(row) THEN row ELSE PyList(<<row>>)

\* [v for v in vs if v is not None]
RECURSIVE not_None(_)
not_None(vs) ==
    IF Len(vs) = 0 THEN <<>>
    ELSE (IF Head(vs).t # "none" THEN <<Head(vs)>> ELSE <<>>) \o not_None(Tail(vs))

\* The strings the inputs can put into a sorted column, in the order sorted()
\* and a sorting groupby put them (code point order).
StringOrder ==
    <<"", "2025-05-01", "2025-05-01 10:30:00", "2025-06-01",
      "5", "Acme", "False", "INV1",
      "NaT", "None", "OA1", "SO1",
      "SO2", "Zip", "[7, 'Zip']", "draft",
      "posted", "sale">>

StringRank(s) == CHOOSE i \in 1..Len(StringOrder) : StringOrder[i] = s

(***************************************************************************)
(* get_string_value: one copy per script. An argument whose evaluation     *)
(* raised never reaches the call: the exception propagates.                *)
(***************************************************************************)
RECURSIVE get_string_value_APR_Combone(_, _)
get_string_value_APR_Combone(f, sub) ==
    IF IsRaised(f) THEN f
    ELSE IF isinstance_dict(f) THEN
        IF Truthy(sub) THEN
            LET value == method_get(f, sub, PyNone)
            IN  get_string_value_APR_Combone(value, PyNone)
        ELSE IF contains_key(f, "display_name") THEN
            str(py_or(getitem(f, "display_name"), PyStr("")))
        ELSE
            PyStr(join(" ", [i \in 1..Len(values(f)) |-> str(values(f)[i]).s]))
    ELSE IF isinstance_int(f) THEN str(f)
    ELSE IF in_False_None(f) THEN PyStr("")
    ELSE str(f)

\* get_string_value looking the subfield up before testing that the field is
\* a mapping.
RECURSIVE get_string_value_AR_Report_eager_subfield(_, _)
get_string_value_AR_Report_eager_subfield(f, sub) ==
    IF IsRaised(f) THEN f
    ELSE IF Truthy(sub) THEN
        LET value == method_get(f, sub, PyNone)
        IN  get_string_value_AR_Report_eager_subfield(value, PyNone)
    ELSE IF isinstance_dict(f) THEN
        IF contains_key(f, "display_name") THEN
            str(py_or(getitem(f, "display_name"), PyStr("")))
        ELSE
            PyStr(join(" ", [i \in 1..Len(values(f)) |-> str(values(f)[i]).s]))
    ELSE IF isinstance_int(f) THEN str(f)
    ELSE IF in_False_None(f) THEN PyStr("")
    ELSE str(f)

RECURSIVE get_string_value_AR_Report(_, _)
get_string_value_AR_Report(f, sub) ==
    IF IsRaised(f) THEN f
    ELSE IF isinstance_dict(f) THEN
        IF Truthy(sub) THEN
            LET value == method_get(f, sub, PyNone)
            IN  get_string_value_AR_Report(value, PyNone)
        ELSE IF contains_key(f, "display_name") THEN
            str(py_or(getitem(f, "display_name"), PyStr("")))
        ELSE
            PyStr(join(" ", [i \in 1..Len(values(f)) |-> str(values(f)[i]).s]))
    ELSE IF isinstance_int(f) THEN str(f)
    ELSE IF in_False_None(f) THEN PyStr("")
    ELSE str(f)

RECURSIVE get_string_value_AR_invoice_status(_, _)
get_string_value_AR_invoice_status(f, sub) ==
    IF IsRaised(f) THEN f
    ELSE IF isinstance_dict(f) THEN
        IF Truthy(sub) THEN
            get_string_value_AR_invoice_status(method_get(f, sub, PyNone), PyNone)
        ELSE IF contains_key(f, "display_name") THEN
            str(py_or(getitem(f, "display_name"), PyStr("")))
        ELSE
            PyStr(join(" ", [i \in 1..Len(values(f)) |-> str(values(f)[i]).s]))
    ELSE IF isinstance_int(f) THEN str(f)
    ELSE IF in_False_None(f) THEN PyStr("")
    ELSE str(f)

\* get_string_value with the display name converted without "or ''".
RECURSIVE get_string_value_FG_Dispatch_no_or(_, _)
get_string_value_FG_Dispatch_no_or(f, sub) ==
    IF IsRaised(f) THEN f
    ELSE IF isinstance_dict(f) THEN
        IF Truthy(sub) THEN
            LET value == method_get(f, sub, PyNone)
            IN  get_string_value_FG_Dispatch_no_or(value, PyNone)
        ELSE IF contains_key(f, "display_name") THEN
            str(getitem(f, "display_name"))
        ELSE
            LET kept == not_None(values(f))
            IN  PyStr(join(" ", [i \in 1..Len(kept) |-> str(kept[i]).s]))
    ELSE IF isinstance_list(f) THEN
        IF Len(f.items) >= 2 THEN str(py_or(f.items[2], PyStr("")))
        ELSE IF Len(f.items) = 1 THEN str(f.items[1])
        ELSE PyStr("")
    ELSE IF isinstance_int(f) THEN str(f)
    ELSE IF in_False_None(f) THEN PyStr("")
    ELSE str(f)

RECURSIVE get_string_value_FG_Dispatch(_, _)
get_string_value_FG_Dispatch(f, sub) ==
    IF IsRaised(f) THEN f
    ELSE IF isinstance_dict(f) THEN
        IF Truthy(sub) THEN
            LET value == method_get(f, sub, PyNone)
            IN  get_string_value_FG_Dispatch(value, PyNone)
        ELSE IF contains_key(f, "display_name") THEN
            str(py_or(getitem(f, "display_name"), PyStr("")))
        ELSE
            LET kept == not_None(values(f))
            IN  PyStr(join(" ", [i \in 1..Len(kept) |-> str(kept[i]).s]))
    ELSE IF isinstance_list(f) THEN
        IF Len(f.items) >= 2 THEN str(py_or(f.items[2], PyStr("")))
        ELSE IF Len(f.items) = 1 THEN str(f.items[1])
        ELSE PyStr("")
    ELSE IF isinstance_int(f) THEN str(f)
    ELSE IF in_False_None(f) THEN PyStr("")
    ELSE str(f)

RECURSIVE get_string_value_OA_ITEM_WISE(_, _)
get_string_value_OA_ITEM_WISE(f, sub) ==
    IF IsRaised(f) THEN f
    ELSE IF isinstance_dict(f) THEN
        IF Truthy(sub) THEN
            LET value == method_get(f, sub, PyNone)
            IN  get_string_value_OA_ITEM_WISE(value, PyNone)
        ELSE IF contains_key(f, "display_name") THEN
            str(py_or(getitem(f, "display_name"), PyStr("")))
        ELSE
            PyStr(join(" ", [i \in 1..Len(values(f)) |-> str(values(f)[i]).s]))
    ELSE IF isinstance_int(f) THEN str(f)
    ELSE IF in_False_None(f) THEN PyStr("")
    ELSE str(f)

\* get_string_value reading the subfield with field[subfield] instead of
\* field.get(subfield).
RECURSIVE get_string_value_srnjnsr_subscript(_, _)
get_string_value_srnjnsr_subscript(f, sub) ==
    IF IsRaised(f) THEN f
    ELSE IF isinstance_dict(f) THEN
        IF Truthy(sub) THEN
            LET value == IF sub.t = "str" THEN getitem(f, sub.s) ELSE Raised("KeyError")
            IN  get_string_value_srnjnsr_subscript(value, PyNone)
        ELSE IF contains_key(f, "display_name") THEN
            str(py_or(getitem(f, "display_name"), PyStr("")))
        ELSE
            PyStr(join(" ", [i \in 1..Len(values(f)) |-> str(values(f)[i]).s]))
    ELSE IF isinstance_int(f) THEN str(f)
    ELSE IF in_False_None(f) THEN PyStr("")
    ELSE str(f)

RECURSIVE get_string_value_srnjnsr(_, _)
get_string_value_srnjnsr(f, sub) ==
    IF IsRaised(f) THEN f
    ELSE IF isinstance_dict(f) THEN
        IF Truthy(sub) THEN
            LET value == method_get(f, sub, PyNone)
            IN  get_string_value_srnjnsr(value, PyNone)
        ELSE IF contains_key(f, "display_name") THEN
            str(py_or(getitem(f, "display_name"), PyStr("")))
        ELSE
            PyStr(join(" ", [i \in 1..Len(values(f)) |-> str(values(f)[i]).s]))
    ELSE IF isinstance_int(f) THEN str(f)
    ELSE IF in_False_None(f) THEN PyStr("")
    ELSE str(f)

Scripts ==
    {"APR_Combone", "AR_Report", "AR_invoice_status", "FG_Dispatch",
     "OA_ITEM_WISE", "srnjnsr"}

\* The copy of get_string_value that script s defines.
get_string_value(s, f, sub) ==
    CASE s = "APR_Combone" -> get_string_value_APR_Combone(f, sub)
      [] s = "AR_Report" -> get_string_value_AR_Report(f, sub)
      [] s = "AR_invoice_status" -> get_string_value_AR_invoice_status(f, sub)
      [] s = "FG_Dispatch" -> get_string_value_FG_Dispatch(f, sub)
      [] s = "OA_ITEM_WISE" -> get_string_value_OA_ITEM_WISE(f, sub)
      [] s = "srnjnsr" -> get_string_value_srnjnsr(f, sub)

(***************************************************************************)
(* flatten_records of AR_Report_combine_invoice.py.                        *)
(***************************************************************************)
\* callable(spec)
callable(v) == v.t = "callable"

\* spec(r) for a callable rule: the two lambdas of
\* COMBINE_INV_LINE_FIELD_MAP, and a function that raises.
apply_callable(spec, r) ==
    CASE spec.f = "quantity" -> method_get(r, PyStr("quantity"), PyInt(0))
      [] spec.f = "price_total" -> method_get(r, PyStr("price_total"), PyInt(0))
      [] spec.f = "raises" -> Raised("ValueError")

\* The body of the try of one column: the value its rule extracts, or the
\* exception its evaluation raised.
rule_value_AR_Report(r, spec) ==
    IF callable(spec) THEN apply_callable(spec, r)
    ELSE IF spec.t \in {"list", "tuple"} /\ Len(spec.items) = 2 THEN
        get_string_value_AR_Report(
            method_get(r, spec.items[1], PyNone), spec.items[2])
    ELSE
        get_string_value_AR_Report(method_get(r, spec, PyNone), PyNone)

\* The column's rule evaluated without the try/except.
column_value_AR_Report_uncaught(r, spec) == rule_value_AR_Report(r, spec)

\* The try/except of one column: val is "" when the rule's evaluation raised.
column_value_AR_Report(r, spec) ==
    LET val == rule_value_AR_Report(r, spec)
    IN  IF IsRaised(val) THEN PyStr("") ELSE val

\* The row of one record: row[out_col] = val for each item of field_map, in
\* its order.
row_AR_Report(r, fmap) ==
    make_dict([i \in 1..Len(fmap.items) |->
                  [k |-> fmap.items[i].k,
                   v |-> column_value_AR_Report(r, fmap.items[i].v)]])

flatten_records_AR_Report(recs, fmap) ==
    concat([i \in 1..Len(recs.items) |-> one_row(row_AR_Report(recs.items[i], fmap))])

(***************************************************************************)
(* flatten_records of OA_ITEM_WISE_data_fetch_odoo.py.                     *)
(***************************************************************************)
\* The row appended for one order line.
row_OA_ITEM_WISE(line, order_id) ==
    make_dict(<<
        [k |-> "Order Reference",
         v |-> get_string_value_OA_ITEM_WISE(method_get(order_id, PyStr("name"), PyNone), PyNone)],
        [k |-> "Sales Order Ref.",
         v |-> get_string_value_OA_ITEM_WISE(method_get(order_id, PyStr("order_ref"), PyNone), PyNone)],
        [k |-> "Buyer",
         v |-> get_string_value_OA_ITEM_WISE(method_get(order_id, PyStr("buyer_name"), PyNone), PyNone)],
        [k |-> "Brand Group",
         v |-> get_string_value_OA_ITEM_WISE(method_get(order_id, PyStr("buyer_name"), PyNone), PyStr("brand"))],
        [k |-> "Buying House",
         v |-> get_string_value_OA_ITEM_WISE(method_get(order_id, PyStr("buying_house"), PyNone), PyNone)],
        [k |-> "Company",
         v |-> get_string_value_OA_ITEM_WISE(method_get(order_id, PyStr("company_id"), PyNone), PyNone)],
        [k |-> "Customer",
         v |-> get_string_value_OA_ITEM_WISE(method_get(order_id, PyStr("partner_id"), PyNone), PyNone)],
        [k |-> "Customer Group",
         v |-> get_string_value_OA_ITEM_WISE(method_get(order_id, PyStr("partner_id"), PyNone), PyStr("group"))],
        [k |-> "Order Date",
         v |-> get_string_value_OA_ITEM_WISE(method_get(order_id, PyStr("date_order"), PyNone), PyNone)],
        [k |-> "Sales Team",
         v |-> get_string_value_OA_ITEM_WISE(method_get(order_id, PyStr("team_id"), PyNone), PyNone)],
        [k |-> "Salesperson",
         v |-> get_string_value_OA_ITEM_WISE(method_get(order_id, PyStr("user_id"), PyNone), PyNone)],
        [k |-> "FG Category",
         v |-> get_string_value_OA_ITEM_WISE(method_get(line, PyStr("product_template_id"), PyNone), PyStr("fg_categ_type"))],
        [k |-> "Quantity",
         v |-> method_get(line, PyStr("product_uom_qty"), PyInt(0))],
        [k |-> "Total",
         v |-> method_get(line, PyStr("price_total"), PyInt(0))],
        [k |-> "Slider Code (SFG)",
         v |-> get_string_value_OA_ITEM_WISE(method_get(line, PyStr("slidercodesfg"), PyNone), PyNone)],
        [k |-> "LC Number",
         v |-> get_string_value_OA_ITEM_WISE(method_get(order_id, PyStr("lc_number"), PyNone), PyNone)],
        [k |-> "Payment Terms",
         v |-> get_string_value_OA_ITEM_WISE(method_get(order_id, PyStr("payment_term_id"), PyNone), PyNone)],
        [k |-> "Status",
         v |-> get_string_value_OA_ITEM_WISE(method_get(order_id, PyStr("state"), PyNone), PyNone)]>>)

\* The body of "for line in order_lines".
line_rows_OA_ITEM_WISE(line) ==
    LET order_id ==
            py_or(method_get(line, PyStr("order_id"), PyDict(<<>>)), PyDict(<<>>))
    IN  one_row(row_OA_ITEM_WISE(line, order_id))

\* The body of "for record in records".
record_rows_OA_ITEM_WISE(record) ==
    LET order_lines == py_iter(method_get(record, PyStr("order_line"), PyList(<<>>)))
    IN  IF IsRaised(order_lines) THEN order_lines
        ELSE concat([i \in 1..Len(order_lines.items) |->
                        line_rows_OA_ITEM_WISE(order_lines.items[i])])

flatten_records_OA_ITEM_WISE(recs) ==
    concat([i \in 1..Len(recs.items) |-> record_rows_OA_ITEM_WISE(recs.items[i])])

(***************************************************************************)
(* flatten_records of srnjnsr_req_OA.py.                                   *)
(***************************************************************************)
\* The row appended for one invoice line of an order line.
row_invoiced_srnjnsr(line, order_id, inv) ==
    make_dict(<<
        [k |-> "Order Reference",
         v |-> get_string_value_srnjnsr(method_get(order_id, PyStr("name"), PyNone), PyNone)],
        [k |-> "Sales Order Ref.",
         v |-> get_string_value_srnjnsr(method_get(order_id, PyStr("order_ref"), PyNone), PyNone)],
        [k |-> "Buyer",
         v |-> get_string_value_srnjnsr(method_get(order_id, PyStr("buyer_name"), PyNone), PyNone)],
        [k |-> "Brand Group",
         v |-> get_string_value_srnjnsr(method_get(order_id, PyStr("buyer_name"), PyNone), PyStr("brand"))],
        [k |-> "Buying House",
         v |-> get_string_value_srnjnsr(method_get(order_id, PyStr("buying_house"), PyNone), PyNone)],
        [k |-> "Company",
         v |-> get_string_value_srnjnsr(method_get(order_id, PyStr("company_id"), PyNone), PyNone)],
        [k |-> "Customer",
         v |-> get_string_value_srnjnsr(method_get(order_id, PyStr("partner_id"), PyNone), PyNone)],
        [k |-> "Customer Group",
         v |-> get_string_value_srnjnsr(method_get(order_id, PyStr("partner_id"), PyNone), PyStr("group"))],
        [k |-> "Order Date",
         v |-> get_string_value_srnjnsr(method_get(order_id, PyStr("date_order"), PyNone), PyNone)],
        [k |-> "Sales Team",
         v |-> get_string_value_srnjnsr(method_get(order_id, PyStr("team_id"), PyNone), PyNone)],
        [k |-> "Salesperson",
         v |-> get_string_value_srnjnsr(method_get(order_id, PyStr("user_id"), PyNone), PyNone)],
        [k |-> "FG Category",
         v |-> get_string_value_srnjnsr(method_get(line, PyStr("product_template_id"), PyNone), PyStr("fg_categ_type"))],
        [k |-> "Quantity",
         v |-> method_get(line, PyStr("product_uom_qty"), PyInt(0))],
        [k |-> "Discount (%)",
         v |-> method_get(line, PyStr("discount"), PyInt(0))],
        [k |-> "Shade Code",
         v |-> get_string_value_srnjnsr(method_get(line, PyStr("shade_code"), PyNone), PyNone)],
        [k |-> "Shade Name",
         v |-> get_string_value_srnjnsr(method_get(line, PyStr("shade"), PyNone), PyNone)],
        [k |-> "Size (CM)",
         v |-> get_string_value_srnjnsr(method_get(line, PyStr("sizecm"), PyNone), PyNone)],
        [k |-> "Size (Inch)",
         v |-> get_string_value_srnjnsr(method_get(line, PyStr("sizein"), PyNone), PyNone)],
        [k |-> "Total",
         v |-> method_get(line, PyStr("price_total"), PyInt(0))],
        [k |-> "Slider Code (SFG)",
         v |-> get_string_value_srnjnsr(method_get(line, PyStr("slidercodesfg"), PyNone), PyNone)],
        [k |-> "OA Ref",
         v |-> get_string_value_srnjnsr(method_get(line, PyStr("shade_ref_2"), PyNone), PyNone)],
        [k |-> "LC Number",
         v |-> get_string_value_srnjnsr(method_get(order_id, PyStr("lc_number"), PyNone), PyNone)],
        [k |-> "Payment Terms",
         v |-> get_string_value_srnjnsr(method_get(order_id, PyStr("payment_term_id"), PyNone), PyNone)],
        [k |-> "Status",
         v |-> get_string_value_srnjnsr(method_get(order_id, PyStr("state"), PyNone), PyNone)],
        [k |-> "Invoice Number",
         v |-> get_string_value_srnjnsr(method_get(inv, PyStr("move_name"), PyNone), PyNone)],
        [k |-> "Invoice Status",
         v |-> get_string_value_srnjnsr(method_get(inv, PyStr("parent_state"), PyNone), PyNone)],
        [k |-> "Invoice Subtotal",
         v |-> method_get(inv, PyStr("price_subtotal"), PyInt(0))],
        [k |-> "Invoice Total",
         v |-> method_get(inv, PyStr("price_total"), PyInt(0))],
        [k |-> "Invoice/Bill Date",
         v |-> get_string_value_srnjnsr(method_get(inv, PyStr("invoice_date"), PyNone), PyNone)]>>)

\* The row of an order line without invoice lines, built without the
\* invoice columns.
row_uninvoiced_srnjnsr_short(line, order_id) ==
    make_dict(<<
        [k |-> "Order Reference",
         v |-> get_string_value_srnjnsr(method_get(order_id, PyStr("name"), PyNone), PyNone)],
        [k |-> "Quantity",
         v |-> method_get(line, PyStr("product_uom_qty"), PyInt(0))],
        [k |-> "Status",
         v |-> get_string_value_srnjnsr(method_get(order_id, PyStr("state"), PyNone), PyNone)]>>)

\* The row appended for an order line without invoice lines.
row_uninvoiced_srnjnsr(line, order_id) ==
    make_dict(<<
        [k |-> "Order Reference",
         v |-> get_string_value_srnjnsr(method_get(order_id, PyStr("name"), PyNone), PyNone)],
        [k |-> "Sales Order Ref.",
         v |-> get_string_value_srnjnsr(method_get(order_id, PyStr("order_ref"), PyNone), PyNone)],
        [k |-> "Buyer",
         v |-> get_string_value_srnjnsr(method_get(order_id, PyStr("buyer_name"), PyNone), PyNone)],
        [k |-> "Brand Group",
         v |-> get_string_value_srnjnsr(method_get(order_id, PyStr("buyer_name"), PyNone), PyStr("brand"))],
        [k |-> "Buying House",
         v |-> get_string_value_srnjnsr(method_get(order_id, PyStr("buying_house"), PyNone), PyNone)],
        [k |-> "Company",
         v |-> get_string_value_srnjnsr(method_get(order_id, PyStr("company_id"), PyNone), PyNone)],
        [k |-> "Customer",
         v |-> get_string_value_srnjnsr(method_get(order_id, PyStr("partner_id"), PyNone), PyNone)],
        [k |-> "Customer Group",
         v |-> get_string_value_srnjnsr(method_get(order_id, PyStr("partner_id"), PyNone), PyStr("group"))],
        [k |-> "Order Date",
         v |-> get_string_value_srnjnsr(method_get(order_id, PyStr("date_order"), PyNone), PyNone)],
        [k |-> "Sales Team",
         v |-> get_string_value_srnjnsr(method_get(order_id, PyStr("team_id"), PyNone), PyNone)],
        [k |-> "Salesperson",
         v |-> get_string_value_srnjnsr(method_get(order_id, PyStr("user_id"), PyNone), PyNone)],
        [k |-> "FG Category",
         v |-> get_string_value_srnjnsr(method_get(line, PyStr("product_template_id"), PyNone), PyStr("fg_categ_type"))],
        [k |-> "Quantity",
         v |-> method_get(line, PyStr("product_uom_qty"), PyInt(0))],
        [k |-> "Discount (%)",
         v |-> method_get(line, PyStr("discount"), PyInt(0))],
        [k |-> "Shade Code",
         v |-> get_string_value_srnjnsr(method_get(line, PyStr("shade_code"), PyNone), PyNone)],
        [k |-> "Shade Name",
         v |-> get_string_value_srnjnsr(method_get(line, PyStr("shade"), PyNone), PyNone)],
        [k |-> "Size (CM)",
         v |-> get_string_value_srnjnsr(method_get(line, PyStr("sizecm"), PyNone), PyNone)],
        [k |-> "Size (Inch)",
         v |-> get_string_value_srnjnsr(method_get(line, PyStr("sizein"), PyNone), PyNone)],
        [k |-> "Total",
         v |-> method_get(line, PyStr("price_total"), PyInt(0))],
        [k |-> "Slider Code (SFG)",
         v |-> get_string_value_srnjnsr(method_get(line, PyStr("slidercodesfg"), PyNone), PyNone)],
        [k |-> "OA Ref",
         v |-> get_string_value_srnjnsr(method_get(line, PyStr("shade_ref_2"), PyNone), PyNone)],
        [k |-> "LC Number",
         v |-> get_string_value_srnjnsr(method_get(order_id, PyStr("lc_number"), PyNone), PyNone)],
        [k |-> "Payment Terms",
         v |-> get_string_value_srnjnsr(method_get(order_id, PyStr("payment_term_id"), PyNone), PyNone)],
        [k |-> "Status",
         v |-> get_string_value_srnjnsr(method_get(order_id, PyStr("state"), PyNone), PyNone)],
        [k |-> "Invoice Number",
         v |-> PyStr("")],
        [k |-> "Invoice Status",
         v |-> PyStr("")],
        [k |-> "Invoice Subtotal",
         v |-> PyInt(0)],
        [k |-> "Invoice Total",
         v |-> PyInt(0)],
        [k |-> "Invoice/Bill Date",
         v |-> PyStr("")]>>)

\* The body of "for line in order_lines".
line_rows_srnjnsr(line) ==
    LET order_id ==
            py_or(method_get(line, PyStr("order_id"), PyDict(<<>>)), PyDict(<<>>))
        invoice_lines ==
            py_or(method_get(line, PyStr("invoice_lines"), PyList(<<>>)), PyList(<<>>))
    IN  IF IsRaised(order_id) THEN order_id
        ELSE IF Truthy(invoice_lines) THEN
            LET invs == py_iter(invoice_lines)
            IN  IF IsRaised(invs) THEN invs
                ELSE concat([i \in 1..Len(invs.items) |->
                        one_row(row_invoiced_srnjnsr(line, order_id, invs.items[i]))])
        ELSE one_row(row_uninvoiced_srnjnsr(line, order_id))

\* The body of "for record in records".
record_rows_srnjnsr(record) ==
    LET order_lines == py_iter(method_get(record, PyStr("order_line"), PyList(<<>>)))
    IN  IF IsRaised(order_lines) THEN order_lines
        ELSE concat([i \in 1..Len(order_lines.items) |->
                        line_rows_srnjnsr(order_lines.items[i])])

flatten_records_srnjnsr(recs) ==
    concat([i \in 1..Len(recs.items) |-> record_rows_srnjnsr(recs.items[i])])

(***************************************************************************)
(* The flatteners that build each row with a single dict display.          *)
(***************************************************************************)
\* flatten_invoice_records of APR_Combone_Inv_data_fetch.py: the row of r.
row_APR_Combone(r) ==
    make_dict(<<
        [k |-> "Sale Order Ref",
         v |-> get_string_value_APR_Combone(method_get(r, PyStr("sale_order_line"), PyNone), PyStr("order_id"))],
        [k |-> "Customer Invoice Items",
         v |-> get_string_value_APR_Combone(method_get(r, PyStr("invoice_id"), PyNone), PyNone)],
        [k |-> "Buying House",
         v |-> get_string_value_APR_Combone(method_get(r, PyStr("buying_house"), PyNone), PyNone)],
        [k |-> "Category",
         v |-> get_string_value_APR_Combone(method_get(r, PyStr("product_uom_category_id"), PyNone), PyNone)],
        [k |-> "Company",
         v |-> get_string_value_APR_Combone(method_get(r, PyStr("company_id"), PyNone), PyNone)],
        [k |-> "Invoice Date",
         v |-> get_string_value_APR_Combone(method_get(r, PyStr("invoice_date"), PyNone), PyNone)],
        [k |-> "Status",
         v |-> get_string_value_APR_Combone(method_get(r, PyStr("parent_state"), PyNone), PyNone)],
        [k |-> "Quantity",
         v |-> method_get(r, PyStr("quantity"), PyInt(0))],
        [k |-> "Total",
         v |-> method_get(r, PyStr("price_total"), PyInt(0))],
        [k |-> "Item",
         v |-> get_string_value_APR_Combone(method_get(r, PyStr("fg_categ_type"), PyNone), PyNone)],
        [k |-> "Sales Ots Line ID",
         v |-> get_string_value_APR_Combone(method_get(r, PyStr("sales_ots_line"), PyNone), PyStr("id"))],
        [k |-> "Marketing Ots Line ID",
         v |-> get_string_value_APR_Combone(method_get(r, PyStr("marketing_ots_line"), PyNone), PyStr("id"))],
        [k |-> "LC No",
         v |-> get_string_value_APR_Combone(method_get(r, PyStr("invoice_id"), PyNone), PyStr("lc_no"))],
        [k |-> "LC Date",
         v |-> get_string_value_APR_Combone(method_get(r, PyStr("invoice_id"), PyNone), PyStr("lc_date"))],
        [k |-> "Payment Terms",
         v |-> get_string_value_APR_Combone(method_get(r, PyStr("invoice_id"), PyNone), PyStr("invoice_payment_term_id"))],
        [k |-> "Buyer",
         v |-> get_string_value_APR_Combone(method_get(r, PyStr("buyer_id"), PyNone), PyNone)],
        [k |-> "Buyer Group",
         v |-> get_string_value_APR_Combone(method_get(r, PyStr("buyer_group"), PyNone), PyNone)],
        [k |-> "Customer",
         v |-> get_string_value_APR_Combone(method_get(r, PyStr("customer_id"), PyNone), PyNone)],
        [k |-> "Customer Group",
         v |-> get_string_value_APR_Combone(method_get(r, PyStr("customer_group"), PyNone), PyNone)],
        [k |-> "Sales Person",
         v |-> get_string_value_APR_Combone(method_get(r, PyStr("sales_person"), PyNone), PyNone)],
        [k |-> "Team",
         v |-> get_string_value_APR_Combone(method_get(r, PyStr("team_id"), PyNone), PyNone)],
        [k |-> "Country",
         v |-> get_string_value_APR_Combone(method_get(r, PyStr("country_id"), PyNone), PyNone)]>>)

flatten_invoice_records_APR_Combone(recs) ==
    concat([i \in 1..Len(recs.items) |-> one_row(row_APR_Combone(recs.items[i]))])

\* flatten_invoice_summary of AR_invoice_status_data.py: the row of r.
row_AR_invoice_status(r) ==
    make_dict(<<
        [k |-> "Number",
         v |-> get_string_value_AR_invoice_status(method_get(r, PyStr("name"), PyNone), PyNone)],
        [k |-> "Partner",
         v |-> get_string_value_AR_invoice_status(method_get(r, PyStr("partner_id"), PyNone), PyNone)],
        [k |-> "Delivery Date",
         v |-> get_string_value_AR_invoice_status(method_get(r, PyStr("delivery_date"), PyNone), PyNone)],
        [k |-> "Doc Received Date",
         v |-> get_string_value_AR_invoice_status(method_get(r, PyStr("commercial_doc_revd_date"), PyNone), PyNone)],
        [k |-> "Handover Date",
         v |-> get_string_value_AR_invoice_status(method_get(r, PyStr("commercial_handover_date"), PyNone), PyNone)],
        [k |-> "Bank Submission Date",
         v |-> get_string_value_AR_invoice_status(method_get(r, PyStr("finance_team_submitted_date"), PyNone), PyNone)],
        [k |-> "Acceptance Status",
         v |-> get_string_value_AR_invoice_status(method_get(r, PyStr("acceptance_status"), PyNone), PyNone)],
        [k |-> "Acceptance Date",
         v |-> get_string_value_AR_invoice_status(method_get(r, PyStr("acceptance_date"), PyNone), PyNone)],
        [k |-> "Tentative Acceptance Date",
         v |-> get_string_value_AR_invoice_status(method_get(r, PyStr("tentative_acceptance_date"), PyNone), PyNone)],
        [k |-> "Payment Maturity Status",
         v |-> get_string_value_AR_invoice_status(method_get(r, PyStr("payment_maturity_status"), PyNone), PyNone)],
        [k |-> "Payment Maturity Date",
         v |-> get_string_value_AR_invoice_status(method_get(r, PyStr("payment_maturity_date"), PyNone), PyNone)],
        [k |-> "Tentative Payment Maturity Date",
         v |-> get_string_value_AR_invoice_status(method_get(r, PyStr("tentative_payment_maturity_date"), PyNone), PyNone)],
        [k |-> "Payment Received Date",
         v |-> get_string_value_AR_invoice_status(method_get(r, PyStr("payment_recv_date"), PyNone), PyNone)],
        [k |-> "OA State",
         v |-> get_string_value_AR_invoice_status(method_get(r, PyStr("oa_state"), PyNone), PyNone)],
        [k |-> "Invoice Status",
         v |-> get_string_value_AR_invoice_status(method_get(r, PyStr("invoice_status"), PyNone), PyNone)],
        [k |-> "Document State",
         v |-> get_string_value_AR_invoice_status(method_get(r, PyStr("docs_state"), PyNone), PyNone)],
        [k |-> "Total Value",
         v |-> method_get(r, PyStr("amount_total"), PyInt(0))],
        [k |-> "Due Amount",
         v |-> method_get(r, PyStr("due_amt"), PyInt(0))],
        [k |-> "total_recv_amt",
         v |-> method_get(r, PyStr("total_recv_amt"), PyInt(0))]>>)

flatten_invoice_summary_AR_invoice_status(recs) ==
    concat([i \in 1..Len(recs.items) |-> one_row(row_AR_invoice_status(recs.items[i]))])

\* safe_get of OA_data_fetch_odoo.py.
safe_get(obj, key, default) ==
    IF IsRaised(obj) THEN obj
    ELSE IF isinstance_dict(obj) THEN method_get(obj, key, default)
    ELSE default

\* flatten_record of OA_data_fetch_odoo.py.
flatten_record_OA_data_fetch(rec) ==
    make_dict(<<
        [k |-> "Already Invoiced",
         v |-> method_get(rec, PyStr("amount_invoiced"), PyStr(""))],
        [k |-> "Buyer",
         v |-> method_get(rec, PyStr("buyer_name"), PyStr(""))],
        [k |-> "Customer",
         v |-> safe_get(method_get(rec, PyStr("partner_id"), PyNone), PyStr("display_name"), PyStr(""))],
        [k |-> "Order Reference",
         v |-> method_get(rec, PyStr("name"), PyStr(""))],
        [k |-> "Sales Order Ref.",
         v |-> safe_get(method_get(rec, PyStr("order_ref"), PyNone), PyStr("display_name"), PyStr(""))],
        [k |-> "Salesperson",
         v |-> safe_get(method_get(rec, PyStr("user_id"), PyNone), PyStr("display_name"), PyStr(""))],
        [k |-> "PI Date",
         v |-> method_get(rec, PyStr("pi_date"), PyStr(""))],
        [k |-> "Order Date",
         v |-> method_get(rec, PyStr("date_order"), PyStr(""))],
        [k |-> "Total",
         v |-> method_get(rec, PyStr("amount_total"), PyStr(""))],
        [k |-> "Total PI Quantity",
         v |-> method_get(rec, PyStr("total_product_qty"), PyStr(""))],
        [k |-> "Sales Team",
         v |-> safe_get(method_get(rec, PyStr("team_id"), PyNone), PyStr("display_name"), PyStr(""))]>>)

\* [flatten_record(r) for r in records] of OA_data_fetch_odoo.py.
flat_records_OA_data_fetch(recs) ==
    concat([i \in 1..Len(recs.items) |->
               one_row(flatten_record_OA_data_fetch(recs.items[i]))])

\* safe_display_name of oa_export_overseas.py.
safe_display_name(obj) ==
    IF IsRaised(obj) THEN obj
    ELSE IF isinstance_dict(obj) THEN method_get(obj, PyStr("display_name"), PyStr(""))
    ELSE PyStr("")

\* flatten_sale_record of oa_export_overseas.py.
flatten_sale_record_oa_export_overseas(rec) ==
    make_dict(<<
        [k |-> "Already invoiced",
         v |-> method_get(rec, PyStr("amount_invoiced"), PyStr(""))],
        [k |-> "Buyer",
         v |-> method_get(rec, PyStr("buyer_name"), PyStr(""))],
        [k |-> "Customer",
         v |-> safe_display_name(method_get(rec, PyStr("partner_id"), PyNone))],
        [k |-> "Order Reference",
         v |-> method_get(rec, PyStr("name"), PyStr(""))],
        [k |-> "Sales Order Ref.",
         v |-> safe_display_name(method_get(rec, PyStr("order_ref"), PyNone))],
        [k |-> "Salesperson",
         v |-> safe_display_name(method_get(rec, PyStr("user_id"), PyNone))],
        [k |-> "PI Date",
         v |-> method_get(rec, PyStr("pi_date"), PyStr(""))],
        [k |-> "Order Date",
         v |-> method_get(rec, PyStr("date_order"), PyStr(""))],
        [k |-> "Total",
         v |-> method_get(rec, PyStr("amount_total"), PyStr(""))],
        [k |-> "Total PI Quantity",
         v |-> method_get(rec, PyStr("total_product_qty"), PyStr(""))]>>)

\* [flatten_sale_record(r) for r in records] of oa_export_overseas.py.
flat_oa_export_overseas(recs) ==
    concat([i \in 1..Len(recs.items) |->
               one_row(flatten_sale_record_oa_export_overseas(recs.items[i]))])

(***************************************************************************)
(* flatten_records(records, line_to_data_fallback) of                      *)
(* FG_Dispatch_data_fetch.py.                                              *)
(***************************************************************************)
\* The element a set or a dict holds for v: numbers that compare equal are
\* one element (True == 1, 2.0 == 2).
hash_key(v) ==
    CASE v.t = "bool" -> PyInt(IF v.b THEN 1 ELSE 0)
      [] v.t = "float" /\ v.tenths % 10 = 0 -> PyInt(v.tenths \div 10)
      [] OTHER -> v

\* The sets invoice_line_ids_for_fallback, invoice_dates and invoice_statuses
\* of one record, and the exception that ended their filling ("" when none).
EmptySets == [ids |-> {}, dates |-> {}, statuses |-> {}, exc |-> ""]

\* invoice_line_ids_for_fallback.add(lid): TypeError when lid is unhashable.
add_id(acc, lid) ==
    IF acc.exc # "" THEN acc
    ELSE IF hashable(lid) THEN [acc EXCEPT !.ids = @ \cup {hash_key(lid)}]
    ELSE [acc EXCEPT !.exc = "TypeError"]

\* One invoice entry: the body of the many2one case and of the loop of
\* "Case A".
entry_FG_Dispatch(acc, entry) ==
    LET inv_date == method_get(entry, PyStr("invoice_date"), PyStr(""))
        inv_status == method_get(entry, PyStr("parent_state"), PyStr(""))
        lid == method_get(entry, PyStr("id"), PyNone)
    IN  IF acc.exc # "" THEN acc
        ELSE IF IsRaised(inv_date) THEN [acc EXCEPT !.exc = inv_date.exc]
        ELSE LET filled ==
                    [acc EXCEPT
                        !.dates = IF Truthy(inv_date)
                                      THEN @ \cup {str(inv_date)} ELSE @,
                        !.statuses = IF Truthy(inv_status)
                                         THEN @ \cup {str(inv_status)} ELSE @]
             IN  IF Truthy(lid) /\ (~Truthy(inv_date) \/ ~Truthy(inv_status))
                     THEN add_id(filled, lid)
                     ELSE filled

\* for entry in invoice_field: ...  ("Case A")
RECURSIVE entries_FG_Dispatch(_, _)
entries_FG_Dispatch(acc, entries) ==
    IF Len(entries) = 0 THEN acc
    ELSE entries_FG_Dispatch(entry_FG_Dispatch(acc, Head(entries)), Tail(entries))

\* for lid in invoice_field: invoice_line_ids_for_fallback.add(lid)
RECURSIVE add_ids(_, _)
add_ids(acc, lids) ==
    IF Len(lids) = 0 THEN acc
    ELSE add_ids(add_id(acc, Head(lids)), Tail(lids))

\* len(el): TypeError when el has no length.
len(el) ==
    CASE el.t \in {"list", "tuple", "dict"} -> PyInt(Len(el.items))
      [] el.t = "str" -> PyInt(Len(el.s))
      [] OTHER -> Raised("TypeError")

\* if len(el) >= 1 and isinstance(el[0], int): add(el[0])
\* el[0] of a str is a str; el[0] of a dict without the key 0 is a KeyError.
pair_id(acc, el) ==
    IF acc.exc # "" THEN acc
    ELSE IF IsRaised(len(el)) THEN [acc EXCEPT !.exc = "TypeError"]
    ELSE IF len(el).n < 1 THEN acc
    ELSE IF el.t = "dict" THEN [acc EXCEPT !.exc = "KeyError"]
    ELSE IF el.t = "str" THEN acc
    ELSE IF isinstance_int(el.items[1]) THEN add_id(acc, el.items[1])
    ELSE acc

\* for el in invoice_field: ...  (list of [id, display] pairs)
RECURSIVE pair_ids(_, _)
pair_ids(acc, els) ==
    IF Len(els) = 0 THEN acc
    ELSE pair_ids(pair_id(acc, Head(els)), Tail(els))

\* int(el): a str holding the decimal form of an integer of at most MaxParsed
\* in magnitude parses to it and any other str of the inputs is a
\* ValueError; a float is truncated towards zero.
int(el) ==
    CASE el.t = "int" -> el
      [] el.t = "bool" -> PyInt(IF el.b THEN 1 ELSE 0)
      [] el.t = "float" ->
            PyInt(IF el.tenths < 0 THEN -((-el.tenths) \div 10) ELSE el.tenths \div 10)
      [] el.t = "str" ->
            IF \E n \in (-MaxParsed)..MaxParsed : IntToStr(n) = el.s
                THEN PyInt(CHOOSE n \in (-MaxParsed)..MaxParsed : IntToStr(n) = el.s)
                ELSE Raised("ValueError")
      [] OTHER -> Raised("TypeError")

\* try: add(int(el))  except Exception: pass
parsed_id(acc, el) ==
    IF IsRaised(int(el)) THEN acc ELSE add_id(acc, int(el))

\* for el in invoice_field: ...  ("Unknown shape, try parse")
RECURSIVE parsed_ids(_, _)
parsed_ids(acc, els) ==
    IF Len(els) = 0 THEN acc
    ELSE parsed_ids(parsed_id(acc, Head(els)), Tail(els))

\* The if / elif chain over the shape of invoice_field.
sets_FG_Dispatch(invoice_field) ==
    IF ~Truthy(invoice_field) THEN EmptySets
    ELSE IF isinstance_dict(invoice_field)
        THEN entry_FG_Dispatch(EmptySets, invoice_field)
    ELSE IF isinstance_list(invoice_field) THEN
        IF Truthy(invoice_field) THEN
            LET first == invoice_field.items[1]
            IN  IF isinstance_dict(first)
                    THEN entries_FG_Dispatch(EmptySets, invoice_field.items)
                ELSE IF isinstance_int(first)
                    THEN add_ids(EmptySets, invoice_field.items)
                ELSE IF first.t \in {"list", "tuple"}
                    THEN pair_ids(EmptySets, invoice_field.items)
                ELSE parsed_ids(EmptySets, invoice_field.items)
        ELSE IF Len(invoice_field.items) = 2 /\ isinstance_int(invoice_field.items[1])
            THEN add_id(EmptySets, invoice_field.items[1])
        ELSE EmptySets
    ELSE IF isinstance_int(invoice_field) THEN add_id(EmptySets, invoice_field)
    ELSE EmptySets

\* line_to_data_fallback.get(lid, {}): the table is a dict keyed by line id,
\* here the sequence of its [k |-> id, v |-> data] items.
get_by_id(table, lid, default) ==
    IF lid.t = "int" /\ \E i \in 1..Len(table) : table[i].k = lid.n
        THEN table[CHOOSE i \in 1..Len(table) : table[i].k = lid.n].v
        ELSE default

\* What one lid of "for lid in invoice_line_ids_for_fallback" adds.
fallback_of(table, lid) ==
    LET data == get_by_id(table, lid, PyDict(<<>>))
        d == method_get(data, PyStr("date"), PyStr(""))
        s == method_get(data, PyStr("status"), PyStr(""))
    IN  IF IsRaised(d) THEN [dates |-> {}, statuses |-> {}, exc |-> d.exc]
        ELSE IF (Truthy(d) /\ ~hashable(d)) \/ (Truthy(s) /\ ~hashable(s))
            THEN [dates |-> {}, statuses |-> {}, exc |-> "TypeError"]
        ELSE [dates |-> IF Truthy(d) THEN {hash_key(d)} ELSE {},
              statuses |-> IF Truthy(s) THEN {hash_key(s)} ELSE {},
              exc |-> ""]

\* for lid in invoice_line_ids_for_fallback: ...  The loop only adds to the
\* two sets, so the order in which the set is iterated does not show in them.
resolve_fallback(acc, table) ==
    LET found == {fallback_of(table, lid) : lid \in acc.ids}
    IN  IF \E f \in found : f.exc # ""
            THEN [acc EXCEPT !.exc = (CHOOSE f \in found : f.exc # "").exc]
            ELSE [acc EXCEPT
                    !.dates = @ \cup UNION {f.dates : f \in found},
                    !.statuses = @ \cup UNION {f.statuses : f \in found}]

\* sorted(strs), from position i of StringOrder on.
RECURSIVE sorted_from(_, _)
sorted_from(strs, i) ==
    IF i > Len(StringOrder) THEN <<>>
    ELSE (IF PyStr(StringOrder[i]) \in strs THEN <<StringOrder[i]>> ELSE <<>>)
            \o sorted_from(strs, i + 1)

\* sep.join(sorted(strs)): TypeError when an element is not a str (sorted
\* raises it for elements that do not compare, join for the others).
sorted_join(sep, strs) ==
    IF \E v \in strs : v.t # "str" THEN Raised("TypeError")
    ELSE PyStr(join(sep.s, sorted_from(strs, 1)))

\* The row of a record, given its two sets.
row_FG_Dispatch(record, invoice_dates, invoice_statuses) ==
    make_dict(<<
        [k |-> "Action Date",
         v |-> get_string_value_FG_Dispatch(method_get(record, PyStr("action_date"), PyNone), PyNone)],
        [k |-> "Company",
         v |-> get_string_value_FG_Dispatch(method_get(record, PyStr("company_id"), PyNone), PyNone)],
        [k |-> "FG Balance",
         v |-> method_get(record, PyStr("fg_balance"), PyInt(0))],
        [k |-> "Item",
         v |-> get_string_value_FG_Dispatch(method_get(record, PyStr("fg_categ_type"), PyNone), PyNone)],
        [k |-> "OA",
         v |-> get_string_value_FG_Dispatch(method_get(record, PyStr("oa_id"), PyNone), PyNone)],
        [k |-> "Order Date",
         v |-> get_string_value_FG_Dispatch(method_get(record, PyStr("date_order"), PyNone), PyNone)],
        [k |-> "Product",
         v |-> get_string_value_FG_Dispatch(method_get(record, PyStr("product_template_id"), PyNone), PyNone)],
        [k |-> "Product Id",
         v |-> get_string_value_FG_Dispatch(method_get(record, PyStr("product_id"), PyNone), PyNone)],
        [k |-> "Final Price",
         v |-> method_get(record, PyStr("final_price"), PyInt(0))],
        [k |-> "Qty",
         v |-> method_get(record, PyStr("qty"), PyInt(0))],
        [k |-> "Team",
         v |-> get_string_value_FG_Dispatch(method_get(record, PyStr("team_id"), PyNone), PyNone)],
        [k |-> "Sales Person",
         v |-> get_string_value_FG_Dispatch(method_get(record, PyStr("sales_person"), PyNone), PyNone)],
        [k |-> "Customer Group",
         v |-> get_string_value_FG_Dispatch(method_get(record, PyStr("customer_group"), PyNone), PyNone)],
        [k |-> "Customer",
         v |-> get_string_value_FG_Dispatch(method_get(record, PyStr("partner_id"), PyNone), PyNone)],
        [k |-> "Buyer",
         v |-> get_string_value_FG_Dispatch(method_get(record, PyStr("buyer_name"), PyNone), PyNone)],
        [k |-> "Buyer Group",
         v |-> get_string_value_FG_Dispatch(method_get(record, PyStr("buyer_group"), PyNone), PyNone)],
        [k |-> "Country",
         v |-> get_string_value_FG_Dispatch(method_get(record, PyStr("country_id"), PyNone), PyNone)],
        [k |-> "Invoice Date",
         v |-> sorted_join(PyStr(", "), invoice_dates)],
        [k |-> "Invoice Status",
         v |-> sorted_join(PyStr(", "), invoice_statuses)]>>)

\* The body of "for record in records".
record_rows_FG_Dispatch(record, line_to_data) ==
    LET invoice_field == method_get(record, PyStr("invoice_line_id"), PyFalse)
    IN  IF IsRaised(invoice_field) THEN invoice_field
        ELSE LET own == sets_FG_Dispatch(invoice_field)
                 all == resolve_fallback(own, line_to_data)
             IN  IF own.exc # "" THEN Raised(own.exc)
                 ELSE IF all.exc # "" THEN Raised(all.exc)
                 ELSE one_row(row_FG_Dispatch(record, all.dates, all.statuses))

flatten_records_FG_Dispatch(recs, line_to_data) ==
    concat([i \in 1..Len(recs.items) |->
               record_rows_FG_Dispatch(recs.items[i], line_to_data)])

(***************************************************************************)
(* pandas: the DataFrame operations the scripts aggregate with.            *)
(*                                                                         *)
(* A DataFrame is [t |-> "frame", columns, dtypes, data]: the column       *)
(* names, the dtype of each column and the rows, each row the sequence of  *)
(* its cells in column order. Besides Python values a cell can hold        *)
(*   [t |-> "nan"]                       NaN (a missing number)            *)
(*   [t |-> "nat"]                       NaT (a missing date)              *)
(*   [t |-> "date", s |-> "2025-05-01"]  a datetime.date                   *)
(*   [t |-> "mean", sum |-> 135, count |-> 2]                              *)
(*                                       the float sum/count, sum in       *)
(*                                       tenths                            *)
(***************************************************************************)
NaN == [t |-> "nan"]
NaT == [t |-> "nat"]
PyDate(s) == [t |-> "date", s |-> s]
PyMean(sum, count) == [t |-> "mean", sum |-> sum, count |-> count]
Frame(columns, dtypes, data) ==
    [t |-> "frame", columns |-> columns, dtypes |-> dtypes, data |-> data]

\* pd.isna(v)
isna(v) == v.t \in {"none", "nan", "nat"}

\* The dtype pd.DataFrame infers for a column holding vals: int64 for ints,
\* float64 for ints, floats and None (not all None), bool for bools, object
\* for everything else.
infer_dtype(vals) ==
    LET ts == {vals[i].t : i \in 1..Len(vals)}
    IN  IF ts = {"int"} THEN "int64"
        ELSE IF ts \subseteq {"int", "float", "none"} /\ ts # {"none"} THEN "float64"
        ELSE IF ts = {"bool"} THEN "bool"
        ELSE "object"

\* The cell a value becomes in a column of the dtype: in a float64 column an
\* int becomes a float and None becomes NaN.
as_dtype(v, dtype) ==
    IF dtype # "float64" THEN v
    ELSE IF v.t = "int" THEN PyFloat(10 * v.n)
    ELSE IF v.t = "none" THEN NaN
    ELSE v

\* pd.DataFrame(rows) for a list of dicts with the same keys: the columns
\* are the keys in order; no rows give the empty frame without columns.
DataFrame(rows) ==
    IF IsRaised(rows) THEN rows
    ELSE IF Len(rows.items) = 0 THEN Frame(<<>>, <<>>, <<>>)
    ELSE LET first == rows.items[1].items
             columns == [c \in 1..Len(first) |-> first[c].k]
             dtypes == [c \in 1..Len(first) |->
                          infer_dtype([i \in 1..Len(rows.items) |->
                                          rows.items[i].items[c].v])]
         IN  Frame(columns, dtypes,
                   [i \in 1..Len(rows.items) |->
                      [c \in 1..Len(first) |->
                          as_dtype(rows.items[i].items[c].v, dtypes[c])]])

\* df.empty
empty(df) == Len(df.data) = 0 \/ Len(df.columns) = 0

\* The positions of the columns in ascending order that satisfy a test on
\* the dtype: df.select_dtypes(include="number").columns.tolist() and
\* [c for c in df.columns if c not in numeric_cols].
RECURSIVE positions_from(_, _, _)
positions_from(dtypes, numeric, c) ==
    IF c > Len(dtypes) THEN <<>>
    ELSE (IF (dtypes[c] \in {"int64", "float64"}) = numeric THEN <<c>> ELSE <<>>)
            \o positions_from(dtypes, numeric, c + 1)

numeric_cols(df) == positions_from(df.dtypes, TRUE, 1)
non_numeric_cols(df) == positions_from(df.dtypes, FALSE, 1)

\* The position of the column named name.
column_position(df, name) == CHOOSE c \in 1..Len(df.columns) : df.columns[c] = name

\* The positions of the columns not named in names, in column order.
RECURSIVE positions_not_named(_, _, _)
positions_not_named(columns, names, c) ==
    IF c > Len(columns) THEN <<>>
    ELSE (IF columns[c] \notin names THEN <<c>> ELSE <<>>)
            \o positions_not_named(columns, names, c + 1)

\* The value of a number in tenths.
tenths_of(v) ==
    CASE v.t = "int" -> 10 * v.n
      [] v.t = "float" -> v.tenths
      [] v.t = "bool" -> IF v.b THEN 10 ELSE 0
      [] v.t = "nan" -> 0

\* a < b for the cells of one group-key column: missing values last, numbers
\* by value, strings by code points, dates by day.
cell_lt(a, b) ==
    IF isna(a) THEN FALSE
    ELSE IF isna(b) THEN TRUE
    ELSE IF a.t \in {"str", "date"} THEN StringRank(a.s) < StringRank(b.s)
    ELSE tenths_of(a) < tenths_of(b)

\* a < b for two group keys: lexicographic.
key_lt(a, b) ==
    \E p \in 1..Len(a) :
        /\ \A q \in 1..(p - 1) : a[q] = b[q]
        /\ cell_lt(a[p], b[p])

\* The keys of a set in ascending order.
RECURSIVE sort_keys(_)
sort_keys(keys) ==
    IF keys = {} THEN <<>>
    ELSE LET least == CHOOSE k \in keys : \A o \in keys \ {k} : key_lt(k, o)
         IN  <<least>> \o sort_keys(keys \ {least})

\* The group key of a row: its cells in the group columns; the missing
\* values None and NaN are one key value.
key_of(row, G) ==
    [g \in 1..Len(G) |-> IF row[G[g]].t = "none" THEN NaN ELSE row[G[g]]]

\* The sum of the cells of a numeric column, in tenths; NaN is skipped.
RECURSIVE sum_tenths(_)
sum_tenths(cells) ==
    IF Len(cells) = 0 THEN 0 ELSE tenths_of(Head(cells)) + sum_tenths(Tail(cells))

\* "sum" and "mean" of the cells of a numeric column of the dtype.
agg_cells(how, cells, dtype) ==
    LET present == SelectSeq(cells, LAMBDA v : ~isna(v))
    IN  IF how = "sum"
            THEN IF dtype = "int64" THEN PyInt(sum_tenths(cells) \div 10)
                 ELSE PyFloat(sum_tenths(cells))
        ELSE IF Len(present) = 0 THEN NaN
        ELSE PyMean(sum_tenths(present), Len(present))

\* df.groupby(G, dropna=dropna)[...].agg(A).reset_index(), and the same with
\* as_index=False: one row per group key in ascending key order, holding the
\* key and the aggregates A (each [c |-> column, how |-> "sum" or "mean"]).
\* With dropna the rows with a missing value in a group column are left out.
\* No group column for a frame with rows is "No group keys passed!".
groupby_agg(df, G, A, dropna) ==
    LET kept == SelectSeq(df.data,
                          LAMBDA row : dropna => \A g \in 1..Len(G) : ~isna(row[G[g]]))
        ordered == sort_keys({key_of(kept[i], G) : i \in 1..Len(kept)})
        cells_of(k, c) ==
            LET members == SelectSeq(kept, LAMBDA row : key_of(row, G) = k)
            IN  [i \in 1..Len(members) |-> members[i][c]]
    IN  IF Len(G) = 0 /\ Len(df.data) > 0 THEN Raised("ValueError")
        ELSE Frame([g \in 1..Len(G) |-> df.columns[G[g]]]
                        \o [a \in 1..Len(A) |-> df.columns[A[a].c]],
                   [g \in 1..Len(G) |-> df.dtypes[G[g]]]
                        \o [a \in 1..Len(A) |->
                              IF A[a].how = "sum" THEN df.dtypes[A[a].c] ELSE "float64"],
                   [i \in 1..Len(ordered) |->
                        ordered[i]
                            \o [a \in 1..Len(A) |->
                                  agg_cells(A[a].how, cells_of(ordered[i], A[a].c),
                                            df.dtypes[A[a].c])]])

\* {col: "sum" for col in cols}
sum_of(cols) == [a \in 1..Len(cols) |-> [c |-> cols[a], how |-> "sum"]]

\* df.drop_duplicates().reset_index(drop=True): the first row of each group
\* of equal rows, in row order; missing values are equal to one another.
drop_duplicates(df) ==
    LET all == [c \in 1..Len(df.columns) |-> c]
        first(i) == \A j \in 1..(i - 1) : key_of(df.data[j], all) # key_of(df.data[i], all)
        RECURSIVE firsts_from(_)
        firsts_from(i) ==
            IF i > Len(df.data) THEN <<>>
            ELSE (IF first(i) THEN <<df.data[i]>> ELSE <<>>) \o firsts_from(i + 1)
    IN  Frame(df.columns, df.dtypes, firsts_from(1))

\* The day a str parses to as a date or a date and time, "" when it does not
\* parse: the date strings of the inputs.
DateOf(s) ==
    CASE s = "2025-05-01" -> "2025-05-01"
      [] s = "2025-05-01 10:30:00" -> "2025-05-01"
      [] s = "2025-06-01" -> "2025-06-01"
      [] OTHER -> ""

\* pd.to_datetime(column, errors="coerce").dt.date for one cell of an object
\* column: a date, or NaT for None and for a str that is no date.
to_date(v) ==
    CASE v.t = "none" -> NaT
      [] v.t = "str" -> IF DateOf(v.s) = "" THEN NaT ELSE PyDate(DateOf(v.s))

\* str(v) for a cell the conversion above gives (.astype(str))
astype_str(v) == IF v.t = "nat" THEN PyStr("NaT") ELSE PyStr(v.s)

\* x.round(2): a float of the model has one decimal digit, which rounding to
\* two decimal digits keeps.
round_2(v) == IF v.t = "float" THEN PyFloat(v.tenths) ELSE v

\* df.round(2)
round_frame(df) ==
    IF IsRaised(df) THEN df
    ELSE Frame(df.columns, df.dtypes,
               [i \in 1..Len(df.data) |->
                    [c \in 1..Len(df.columns) |-> round_2(df.data[i][c])]])

(***************************************************************************)
(* The aggregation step of each script that aggregates.                    *)
(***************************************************************************)
\* for col in df.columns: if <the dtype of col is one of converted>:
\*     df[col] = pd.to_datetime(df[col], errors="coerce").dt.date
dates_of_columns(df, converted) ==
    Frame(df.columns,
          [c \in 1..Len(df.columns) |->
              IF df.dtypes[c] \in converted THEN "object" ELSE df.dtypes[c]],
          [i \in 1..Len(df.data) |->
              [c \in 1..Len(df.columns) |->
                  IF df.dtypes[c] \in converted
                      THEN to_date(df.data[i][c]) ELSE df.data[i][c]]])

\* normalize_dates_and_group(df) of APR_Combone_Inv_data_fetch.py.
normalize_dates_and_group_APR_Combone(df) ==
    IF IsRaised(df) THEN df
    ELSE LET dated == dates_of_columns(df, {"datetime64[ns]"})
         IN  groupby_agg(dated, non_numeric_cols(dated),
                         sum_of(numeric_cols(dated)), FALSE)

\* normalize_dates_and_group(df) of AR_Report_combine_invoice.py: every
\* object column goes through pd.to_datetime(errors="coerce").
normalize_dates_and_group_AR_Report(df) ==
    IF IsRaised(df) THEN df
    ELSE LET dated == dates_of_columns(df, {"datetime64[ns]", "object"})
         IN  IF Len(numeric_cols(dated)) > 0
                 THEN groupby_agg(dated, non_numeric_cols(dated),
                                  sum_of(numeric_cols(dated)), FALSE)
                 ELSE drop_duplicates(dated)

\* __main__ of OA_ITEM_WISE_data_fetch_odoo.py, from "if df.empty" to
\* df_grouped: None stands for "no table" (the loop is left).
grouped_OA_ITEM_WISE(df) ==
    IF IsRaised(df) THEN df
    ELSE IF empty(df) THEN PyNone
    ELSE round_frame(groupby_agg(df, non_numeric_cols(df),
                                 sum_of(numeric_cols(df)), TRUE))

\* __main__ of srnjnsr_req_OA.py, from "if df.empty" to df_grouped.
grouped_srnjnsr(df) ==
    IF IsRaised(df) THEN df
    ELSE IF empty(df) THEN PyNone
    ELSE round_frame(groupby_agg(df, non_numeric_cols(df),
                                 sum_of(numeric_cols(df)), TRUE))

\* a * b for two cells of numeric columns: NaN when one is NaN.
mul_cells(a, b) ==
    IF a.t = "nan" \/ b.t = "nan" THEN NaN
    ELSE IF a.t = "int" /\ b.t = "int" THEN PyInt(a.n * b.n)
    ELSE PyFloat((tenths_of(a) * tenths_of(b)) \div 10)

\* df['Value'] = df['Final Price'] * df['Qty'], for two numeric columns.
with_Value(df) ==
    LET p == column_position(df, "Final Price")
        q == column_position(df, "Qty")
    IN  Frame(Append(df.columns, "Value"),
              Append(df.dtypes,
                     IF df.dtypes[p] = "int64" /\ df.dtypes[q] = "int64"
                         THEN "int64" ELSE "float64"),
              [i \in 1..Len(df.data) |->
                    Append(df.data[i], mul_cells(df.data[i][p], df.data[i][q]))])

\* df[col] = pd.to_datetime(df[col], errors='coerce').dt.date.astype(str)
\* for the columns named in date_cols.
date_strings_of_columns(df, date_cols) ==
    Frame(df.columns,
          [c \in 1..Len(df.columns) |->
              IF df.columns[c] \in date_cols THEN "object" ELSE df.dtypes[c]],
          [i \in 1..Len(df.data) |->
              [c \in 1..Len(df.columns) |->
                  IF df.columns[c] \in date_cols
                      THEN astype_str(to_date(df.data[i][c])) ELSE df.data[i][c]]])

\* __main__ of FG_Dispatch_data_fetch.py, from "if not df.empty" to
\* df_grouped: None stands for "no table" (grouping is skipped).
grouped_FG_Dispatch(df) ==
    IF IsRaised(df) THEN df
    ELSE IF empty(df) THEN PyNone
    ELSE LET dated == date_strings_of_columns(with_Value(df),
                                              {"Action Date", "Order Date"})
             agg_columns == <<"FG Balance", "Qty", "Final Price", "Value">>
             how == <<"sum", "sum", "mean", "sum">>
         IN  groupby_agg(dated,
                         positions_not_named(dated.columns,
                                             {agg_columns[a] : a \in 1..4}, 1),
                         [a \in 1..4 |->
                            [c |-> column_position(dated, agg_columns[a]),
                             how |-> how[a]]],
                         TRUE)

(***************************************************************************)
(* The values a field of an upstream record may hold (RawValue).           *)
(***************************************************************************)
Ints == (0..MaxInt) \cup {12345}

Atoms ==
    {PyNone, PyFalse, PyTrue, PyFloat(0), PyFloat(25),
     PyStr(""), PyStr("SO1"), PyStr("Acme")}
    \cup {PyInt(n) : n \in Ints}

ListItems == {PyNone, PyFalse, PyInt(0), PyInt(7), PyStr("SO1")}

SeqsUpTo(S, n) == UNION {[1..k -> S] : k \in 0..n}

Lists == {PyList(items) : items \in SeqsUpTo(ListItems, MaxListLen)}

Keys == {"display_name", "brand", "name"}

DictVals ==
    {PyNone, PyFalse, PyInt(0), PyInt(7), PyStr(""), PyStr("Acme"),
     PyList(<<>>), PyList(<<PyInt(7), PyStr("SO1")>>),
     PyDict(<<[k |-> "display_name", v |-> PyStr("Zip")]>>),
     PyDict(<<[k |-> "name", v |-> PyNone]>>)}

\* The sequences of distinct keys, up to MaxKeys long.
KeySeqs ==
    {ks \in SeqsUpTo(Keys, MaxKeys) :
        \A i, j \in 1..Len(ks) : i # j => ks[i] # ks[j]}

Dicts ==
    {PyDict([i \in 1..Len(ks) |-> [k |-> ks[i], v |-> vs[i]]]) :
        <<ks, vs>> \in UNION {{<<ks, vs>> : vs \in [1..Len(ks) -> DictVals]} :
                                ks \in KeySeqs}}

RawValues == Atoms \cup Lists \cup Dicts

Subfields == {PyNone, PyStr(""), PyStr("display_name"), PyStr("brand")}

(***************************************************************************)
(* Inputs of flatten_records(records, field_map) of AR_Report.             *)
(***************************************************************************)
MaxCols == 2

\* Extraction rules: a field name, (field, subfield) pairs, computed
\* functions, and malformed rules (an unhashable list, an unhashable
\* subfield).
Rules ==
    {PyStr("partner_id"),
     PyTuple(<<PyStr("partner_id"), PyStr("display_name")>>),
     PyTuple(<<PyStr("partner_id"), PyNone>>),
     PyCallable("quantity"),
     PyCallable("raises"),
     PyList(<<PyStr("partner_id")>>),
     PyTuple(<<PyStr("partner_id"), PyList(<<PyInt(1)>>)>>)}

\* The name of the i-th output column.
ColumnName(i) ==
    CASE i = 1 -> "Customer"
      [] i = 2 -> "Quantity"
      [] i = 3 -> "Status"
      [] OTHER -> "Column " \o NatToStr(i)

\* The field maps: up to MaxCols output columns, each with a rule.
FieldMaps ==
    {PyDict([i \in 1..Len(rs) |-> [k |-> ColumnName(i), v |-> rs[i]]]) :
        rs \in SeqsUpTo(Rules, MaxCols)}

\* Records of combine.invoice.line: well-formed ones, one whose partner_id is
\* a bare integer, and one that is not a mapping.
InvoiceLineRecords ==
    {PyInt(5),
     PyDict(<<>>),
     PyDict(<<[k |-> "partner_id",
               v |-> PyDict(<<[k |-> "display_name", v |-> PyStr("Acme")]>>)],
              [k |-> "quantity", v |-> PyInt(2)]>>),
     PyDict(<<[k |-> "partner_id", v |-> PyFalse],
              [k |-> "quantity", v |-> PyFloat(25)]>>),
     PyDict(<<[k |-> "partner_id", v |-> PyList(<<PyInt(7), PyStr("SO1")>>)]>>),
     PyDict(<<[k |-> "partner_id", v |-> PyInt(12345)]>>)}

(***************************************************************************)
(* Inputs of flatten_records(records) of OA_ITEM_WISE and srnjnsr:         *)
(* sale.order records with their order lines.                              *)
(***************************************************************************)
Order1 ==
    PyDict(<<[k |-> "name", v |-> PyStr("SO1")],
             [k |-> "partner_id",
              v |-> PyDict(<<[k |-> "display_name", v |-> PyStr("Acme")],
                             [k |-> "group", v |-> PyFalse]>>)],
             [k |-> "date_order", v |-> PyStr("2025-05-01")],
             [k |-> "state", v |-> PyStr("sale")]>>)

Order2 ==
    PyDict(<<[k |-> "name", v |-> PyStr("SO2")],
             [k |-> "partner_id", v |-> PyList(<<PyInt(7), PyStr("Zip")>>)],
             [k |-> "state", v |-> PyStr("sale")]>>)

Invoice1 ==
    PyDict(<<[k |-> "move_name", v |-> PyStr("INV1")],
             [k |-> "parent_state", v |-> PyStr("posted")],
             [k |-> "price_total", v |-> PyFloat(105)]>>)

Invoice2 ==
    PyDict(<<[k |-> "move_name", v |-> PyFalse],
             [k |-> "price_subtotal", v |-> PyInt(3)]>>)

\* Order lines: plain ones of two orders, one with two invoice lines, and
\* malformed ones (order_id a bare integer or an [id, label] pair,
\* invoice_lines holding a non-mapping element).
OrderLines ==
    {PyDict(<<[k |-> "order_id", v |-> Order1],
              [k |-> "product_uom_qty", v |-> PyInt(2)]>>),
     PyDict(<<[k |-> "order_id", v |-> Order1],
              [k |-> "product_uom_qty", v |-> PyFloat(25)],
              [k |-> "invoice_lines", v |-> PyList(<<Invoice1, Invoice2>>)]>>),
     PyDict(<<[k |-> "order_id", v |-> Order2],
              [k |-> "product_uom_qty", v |-> PyFalse],
              [k |-> "invoice_lines", v |-> PyFalse]>>),
     PyDict(<<[k |-> "order_id", v |-> PyInt(7)]>>),
     PyDict(<<[k |-> "order_id", v |-> PyList(<<PyInt(7), PyStr("SO1")>>)]>>),
     PyDict(<<[k |-> "order_id", v |-> PyFalse],
              [k |-> "invoice_lines", v |-> PyList(<<PyInt(9)>>)]>>)}

\* The sale.order records with k order lines; for k = 0 the order_line field
\* is absent, False, None or the empty list.
RecordsWithLines(k) ==
    IF k = 0
        THEN {PyDict(<<>>),
              PyDict(<<[k |-> "order_line", v |-> PyFalse]>>),
              PyDict(<<[k |-> "order_line", v |-> PyNone]>>),
              PyDict(<<[k |-> "order_line", v |-> PyList(<<>>)]>>)}
        ELSE {PyDict(<<[k |-> "order_line", v |-> PyList(ls)]>>) :
                ls \in [1..k -> OrderLines]}

\* The lists of n records that hold at most budget order lines in all.
RECURSIVE RecordSeqs(_, _)
RecordSeqs(n, budget) ==
    IF n = 0 THEN {<<>>}
    ELSE UNION {{<<r>> \o rest : r \in RecordsWithLines(k),
                                 rest \in RecordSeqs(n - 1, budget - k)} :
                  k \in 0..budget}

\* The lists of up to MaxRecords records with up to MaxLines order lines in
\* all.
SaleOrderRecordLists == UNION {RecordSeqs(n, MaxLines) : n \in 0..MaxRecords}

(***************************************************************************)
(* Inputs of the single-display flatteners.                                *)
(***************************************************************************)
\* Records of combine.invoice, as AR_invoice_status_data.py fetches them.
CombineInvoiceRecords ==
    {PyInt(5),
     PyDict(<<>>),
     PyDict(<<[k |-> "name", v |-> PyStr("INV1")],
              [k |-> "partner_id",
               v |-> PyDict(<<[k |-> "display_name", v |-> PyStr("Acme")]>>)],
              [k |-> "delivery_date", v |-> PyStr("2025-05-01")],
              [k |-> "amount_total", v |-> PyFloat(105)],
              [k |-> "due_amt", v |-> PyInt(0)]>>),
     PyDict(<<[k |-> "name", v |-> PyFalse],
              [k |-> "invoice_status", v |-> PyList(<<PyInt(7), PyStr("SO1")>>)],
              [k |-> "delivery_date", v |-> PyFalse],
              [k |-> "amount_total", v |-> PyFalse]>>)}

\* Records of sale.order, as OA_data_fetch_odoo.py and oa_export_overseas.py
\* fetch them.
SaleOrderSummaryRecords ==
    {PyInt(5),
     PyDict(<<>>),
     PyDict(<<[k |-> "name", v |-> PyStr("SO1")],
              [k |-> "buyer_name", v |-> PyStr("Zip")],
              [k |-> "partner_id",
               v |-> PyDict(<<[k |-> "display_name", v |-> PyStr("Acme")]>>)],
              [k |-> "amount_total", v |-> PyFloat(105)],
              [k |-> "amount_invoiced", v |-> PyInt(0)]>>),
     PyDict(<<[k |-> "name", v |-> PyStr("SO2")],
              [k |-> "buyer_name", v |-> PyFalse],
              [k |-> "partner_id", v |-> PyFalse],
              [k |-> "user_id", v |-> PyDict(<<[k |-> "display_name", v |-> PyFalse]>>)],
              [k |-> "pi_date", v |-> PyFalse],
              [k |-> "amount_total", v |-> PyNone]>>)}

\* Records of operation.details, as FG_Dispatch_data_fetch.py fetches them:
\* invoice_line_id in each shape the flattener distinguishes.
InvoiceEntry(id, date, status) ==
    PyDict(<<[k |-> "id", v |-> id],
             [k |-> "invoice_date", v |-> date],
             [k |-> "parent_state", v |-> status]>>)

OperationDetailRecords ==
    {PyDict(<<>>),
     PyDict(<<[k |-> "oa_id", v |-> PyDict(<<[k |-> "display_name", v |-> PyStr("OA1")]>>)],
              [k |-> "qty", v |-> PyInt(2)],
              [k |-> "final_price", v |-> PyFloat(105)],
              [k |-> "invoice_line_id",
               v |-> InvoiceEntry(PyInt(7), PyStr("2025-05-01"), PyStr("posted"))]>>),
     PyDict(<<[k |-> "buyer_name", v |-> PyFalse],
              [k |-> "invoice_line_id",
               v |-> InvoiceEntry(PyInt(7), PyFalse, PyStr("draft"))]>>)}
    \cup {PyDict(<<[k |-> "invoice_line_id", v |-> f]>>) :
            f \in {PyList(<<InvoiceEntry(PyInt(7), PyStr("2025-06-01"), PyFalse),
                            InvoiceEntry(PyInt(8), PyStr("2025-05-01"), PyStr("posted"))>>),
                   PyList(<<InvoiceEntry(PyList(<<PyInt(7)>>), PyInt(5), PyFalse)>>),
                   PyList(<<InvoiceEntry(PyInt(7), PyFalse, PyFalse), PyInt(5)>>),
                   PyList(<<PyInt(7), PyInt(8)>>),
                   PyList(<<PyList(<<PyInt(7), PyStr("L7")>>)>>),
                   PyList(<<PyList(<<PyInt(8), PyStr("L8")>>), PyInt(5)>>),
                   PyList(<<PyStr("1"), PyNone, PyStr("draft")>>),
                   PyInt(8),
                   PyTrue}}

\* The tables fetch_invoice_data returns: a date and a status per line id,
\* both str, one of them not empty.
FallbackData(date, status) ==
    PyDict(<<[k |-> "date", v |-> PyStr(date)], [k |-> "status", v |-> PyStr(status)]>>)

FallbackTables ==
    {<<>>,
     <<[k |-> 7, v |-> FallbackData("2025-06-01", "posted")]>>,
     <<[k |-> 7, v |-> FallbackData("", "draft")],
       [k |-> 8, v |-> FallbackData("2025-05-01", "")]>>,
     <<[k |-> 1, v |-> FallbackData("2025-06-01", "draft")]>>}

(***************************************************************************)
(* Inputs of the aggregating runs. The amount fields hold numbers or None, *)
(* and in every script but APR_Combone and AR_Report at least one amount   *)
(* column of the table is numeric.                                         *)
(***************************************************************************)
\* COMBINE_INV_LINE_FIELD_MAP of AR_Report_combine_invoice.py.
COMBINE_INV_LINE_FIELD_MAP ==
    PyDict(<<
        [k |-> "Sale Order Ref", v |-> PyTuple(<<PyStr("sale_order_line"), PyStr("order_id")>>)],
        [k |-> "Customer Invoice Items", v |-> PyStr("invoice_id")],
        [k |-> "Buying House", v |-> PyTuple(<<PyStr("buying_house"), PyNone>>)],
        [k |-> "Category", v |-> PyTuple(<<PyStr("product_uom_category_id"), PyNone>>)],
        [k |-> "Company", v |-> PyTuple(<<PyStr("company_id"), PyNone>>)],
        [k |-> "Invoice Date", v |-> PyStr("invoice_date")],
        [k |-> "Status", v |-> PyStr("parent_state")],
        [k |-> "Quantity", v |-> PyCallable("quantity")],
        [k |-> "Total", v |-> PyCallable("price_total")],
        [k |-> "Item", v |-> PyStr("fg_categ_type")],
        [k |-> "Sales Ots Line ID", v |-> PyTuple(<<PyStr("sales_ots_line"), PyStr("id")>>)],
        [k |-> "Marketing Ots Line ID", v |-> PyTuple(<<PyStr("marketing_ots_line"), PyStr("id")>>)],
        [k |-> "LC No", v |-> PyTuple(<<PyStr("invoice_id"), PyStr("lc_no")>>)],
        [k |-> "LC Date", v |-> PyTuple(<<PyStr("invoice_id"), PyStr("lc_date")>>)],
        [k |-> "Payment Terms", v |-> PyTuple(<<PyStr("invoice_id"), PyStr("invoice_payment_term_id")>>)],
        [k |-> "Buyer", v |-> PyTuple(<<PyStr("buyer_id"), PyNone>>)],
        [k |-> "Buyer Group", v |-> PyTuple(<<PyStr("buyer_group"), PyNone>>)],
        [k |-> "Customer", v |-> PyTuple(<<PyStr("customer_id"), PyNone>>)],
        [k |-> "Customer Group", v |-> PyTuple(<<PyStr("customer_group"), PyNone>>)],
        [k |-> "Sales Person", v |-> PyTuple(<<PyStr("sales_person"), PyNone>>)],
        [k |-> "Team", v |-> PyTuple(<<PyStr("team_id"), PyNone>>)],
        [k |-> "Country", v |-> PyTuple(<<PyStr("country_id"), PyNone>>)]>>)

\* Records of combine.invoice.line, as APR_Combone and AR_Report fetch them:
\* two of one customer and day, lines without amounts (two of them of one
\* day and two customers), an empty record.
AggInvoiceLineRecords ==
    {PyDict(<<[k |-> "customer_id",
               v |-> PyDict(<<[k |-> "display_name", v |-> PyStr("Acme")]>>)],
              [k |-> "invoice_date", v |-> PyStr("2025-05-01")],
              [k |-> "quantity", v |-> PyInt(2)],
              [k |-> "price_total", v |-> PyFloat(105)]>>),
     PyDict(<<[k |-> "customer_id",
               v |-> PyDict(<<[k |-> "display_name", v |-> PyStr("Acme")]>>)],
              [k |-> "invoice_date", v |-> PyStr("2025-05-01")],
              [k |-> "quantity", v |-> PyFloat(25)],
              [k |-> "price_total", v |-> PyInt(3)]>>),
     PyDict(<<[k |-> "customer_id",
               v |-> PyDict(<<[k |-> "display_name", v |-> PyStr("Zip")]>>)],
              [k |-> "invoice_date", v |-> PyFalse],
              [k |-> "quantity", v |-> PyNone],
              [k |-> "price_total", v |-> PyNone]>>),
     PyDict(<<[k |-> "customer_id",
               v |-> PyDict(<<[k |-> "display_name", v |-> PyStr("Acme")]>>)],
              [k |-> "invoice_date", v |-> PyStr("2025-06-01")],
              [k |-> "quantity", v |-> PyNone],
              [k |-> "price_total", v |-> PyNone]>>),
     PyDict(<<[k |-> "customer_id",
               v |-> PyDict(<<[k |-> "display_name", v |-> PyStr("Zip")]>>)],
              [k |-> "invoice_date", v |-> PyStr("2025-06-01")],
              [k |-> "quantity", v |-> PyNone],
              [k |-> "price_total", v |-> PyNone]>>),
     PyDict(<<>>)}

\* Order lines of sale.order, as OA_ITEM_WISE and srnjnsr fetch them: two of
\* one order, lines without a quantity, a line with two invoice lines.
AggOrderLines ==
    {PyDict(<<[k |-> "order_id", v |-> Order1],
              [k |-> "product_uom_qty", v |-> PyInt(2)],
              [k |-> "price_total", v |-> PyFloat(105)]>>),
     PyDict(<<[k |-> "order_id", v |-> Order1],
              [k |-> "product_uom_qty", v |-> PyFloat(25)],
              [k |-> "price_total", v |-> PyInt(3)]>>),
     PyDict(<<[k |-> "order_id", v |-> Order2],
              [k |-> "product_uom_qty", v |-> PyNone],
              [k |-> "price_total", v |-> PyFloat(105)]>>),
     PyDict(<<[k |-> "order_id", v |-> Order1],
              [k |-> "product_uom_qty", v |-> PyNone],
              [k |-> "price_total", v |-> PyInt(3)]>>),
     PyDict(<<[k |-> "order_id", v |-> Order2],
              [k |-> "price_total", v |-> PyInt(3)],
              [k |-> "invoice_lines", v |-> PyList(<<Invoice1, Invoice2>>)]>>)}

\* The record lists of an aggregating run over sale orders: no record, or
\* one order with up to MaxLines order lines.
AggSaleOrderRecordLists ==
    {<<>>} \cup {<<PyDict(<<[k |-> "order_line", v |-> PyList(ls)]>>)>> :
                    ls \in SeqsUpTo(AggOrderLines, MaxLines)}

\* Records of operation.details, as FG_Dispatch fetches them: two of one OA
\* and day, one without OA and dates, an empty record.
AggOperationDetailRecords ==
    {PyDict(<<[k |-> "oa_id", v |-> PyDict(<<[k |-> "display_name", v |-> PyStr("OA1")]>>)],
              [k |-> "action_date", v |-> PyStr("2025-05-01 10:30:00")],
              [k |-> "fg_balance", v |-> PyInt(5)],
              [k |-> "qty", v |-> PyInt(2)],
              [k |-> "final_price", v |-> PyFloat(105)]>>),
     PyDict(<<[k |-> "oa_id", v |-> PyDict(<<[k |-> "display_name", v |-> PyStr("OA1")]>>)],
              [k |-> "action_date", v |-> PyStr("2025-05-01 10:30:00")],
              [k |-> "fg_balance", v |-> PyInt(1)],
              [k |-> "qty", v |-> PyInt(3)],
              [k |-> "final_price", v |-> PyInt(5)]>>),
     PyDict(<<[k |-> "oa_id", v |-> PyFalse],
              [k |-> "action_date", v |-> PyFalse],
              [k |-> "qty", v |-> PyInt(3)],
              [k |-> "final_price", v |-> PyFloat(105)]>>),
     PyDict(<<>>)}

(***************************************************************************)
(* State machine.                                                          *)
(***************************************************************************)
Init ==
    /\ op = "idle"
    /\ script = "none"
    /\ field = PyNone
    /\ subfield = PyNone
    /\ resolved = PyNone
    /\ records = PyNone
    /\ field_map = PyNone
    /\ line_to_data_fallback = <<>>
    /\ flat_rows = PyNone
    /\ dataframe = PyNone
    /\ grouped = PyNone
    /\ upstream = <<>>
    /\ batch_size = 1
    /\ offset = 0
    /\ all_records = <<>>
    /\ requests = <<>>
    /\ pages = <<>>
    /\ fetched = PyNone
    /\ retries = 0
    /\ company = 1
    /\ attempts = <<>>
    /\ exit_status = "running"
    /\ worksheet = <<>>
    /\ old_rows = 0
    /\ new_rows = 0
    /\ paste_pc = "idle"
    /\ flat_rows_again = PyNone
    /\ records_of_company = <<>>
    /\ all_records_FG = <<>>
    /\ unique_line_ids_for_fallback = {}
    /\ matched_throughout = {}
    /\ changes = 0

\* A call get_string_value(field, subfield) of script s's copy.
Call_get_string_value ==
    /\ op = "idle"
    /\ \E s \in Scripts, f \in RawValues, sub \in Subfields :
            /\ op' = "get_string_value"
            /\ script' = s
            /\ field' = f
            /\ subfield' = sub
            /\ resolved' = get_string_value(s, f, sub)
            /\ UNCHANGED <<again_vars, acc_vars, change_vars, sheet_vars, fetch_vars, retry_vars, dataframe, grouped, records, field_map, line_to_data_fallback, flat_rows>>

Next == Call_get_string_value

Spec == Init /\ [][Next]_vars

\* A call flatten_records(records, field_map) of AR_Report_combine_invoice.py.
Call_flatten_records_AR_Report ==
    /\ op = "idle"
    /\ \E recs \in SeqsUpTo(InvoiceLineRecords, MaxRecords), fmap \in FieldMaps :
            /\ op' = "flatten_records"
            /\ script' = "AR_Report"
            /\ records' = PyList(recs)
            /\ field_map' = fmap
            /\ flat_rows' = flatten_records_AR_Report(PyList(recs), fmap)
            /\ UNCHANGED <<again_vars, acc_vars, change_vars, sheet_vars, fetch_vars, retry_vars, dataframe, grouped, field, subfield, resolved, line_to_data_fallback>>

\* A call flatten_records(records) of OA_ITEM_WISE_data_fetch_odoo.py.
Call_flatten_records_OA_ITEM_WISE ==
    /\ op = "idle"
    /\ \E recs \in SaleOrderRecordLists :
            /\ op' = "flatten_records"
            /\ script' = "OA_ITEM_WISE"
            /\ records' = PyList(recs)
            /\ flat_rows' = flatten_records_OA_ITEM_WISE(PyList(recs))
            /\ UNCHANGED <<again_vars, acc_vars, change_vars, sheet_vars, fetch_vars, retry_vars, dataframe, grouped, field, subfield, resolved, field_map, line_to_data_fallback>>

\* A call flatten_records(records) of srnjnsr_req_OA.py.
Call_flatten_records_srnjnsr ==
    /\ op = "idle"
    /\ \E recs \in SaleOrderRecordLists :
            /\ op' = "flatten_records"
            /\ script' = "srnjnsr"
            /\ records' = PyList(recs)
            /\ flat_rows' = flatten_records_srnjnsr(PyList(recs))
            /\ UNCHANGED <<again_vars, acc_vars, change_vars, sheet_vars, fetch_vars, retry_vars, dataframe, grouped, field, subfield, resolved, field_map, line_to_data_fallback>>

\* A call flatten_invoice_records(records) of APR_Combone_Inv_data_fetch.py.
Call_flatten_invoice_records_APR_Combone ==
    /\ op = "idle"
    /\ \E recs \in SeqsUpTo(InvoiceLineRecords, MaxRecords) :
            /\ op' = "flatten_records"
            /\ script' = "APR_Combone"
            /\ records' = PyList(recs)
            /\ flat_rows' = flatten_invoice_records_APR_Combone(PyList(recs))
            /\ UNCHANGED <<again_vars, acc_vars, change_vars, sheet_vars, fetch_vars, retry_vars, dataframe, grouped, field, subfield, resolved, field_map, line_to_data_fallback>>

\* A call flatten_invoice_summary(records) of AR_invoice_status_data.py.
Call_flatten_invoice_summary_AR_invoice_status ==
    /\ op = "idle"
    /\ \E recs \in SeqsUpTo(CombineInvoiceRecords, MaxRecords) :
            /\ op' = "flatten_records"
            /\ script' = "AR_invoice_status"
            /\ records' = PyList(recs)
            /\ flat_rows' = flatten_invoice_summary_AR_invoice_status(PyList(recs))
            /\ UNCHANGED <<again_vars, acc_vars, change_vars, sheet_vars, fetch_vars, retry_vars, dataframe, grouped, field, subfield, resolved, field_map, line_to_data_fallback>>

\* The flattening step of __main__ of OA_data_fetch_odoo.py.
Call_flatten_record_OA_data_fetch ==
    /\ op = "idle"
    /\ \E recs \in SeqsUpTo(SaleOrderSummaryRecords, MaxRecords) :
            /\ op' = "flatten_records"
            /\ script' = "OA_data_fetch"
            /\ records' = PyList(recs)
            /\ flat_rows' = flat_records_OA_data_fetch(PyList(recs))
            /\ UNCHANGED <<again_vars, acc_vars, change_vars, sheet_vars, fetch_vars, retry_vars, dataframe, grouped, field, subfield, resolved, field_map, line_to_data_fallback>>

\* The flattening step of main of oa_export_overseas.py.
Call_flatten_sale_record_oa_export_overseas ==
    /\ op = "idle"
    /\ \E recs \in SeqsUpTo(SaleOrderSummaryRecords, MaxRecords) :
            /\ op' = "flatten_records"
            /\ script' = "oa_export_overseas"
            /\ records' = PyList(recs)
            /\ flat_rows' = flat_oa_export_overseas(PyList(recs))
            /\ UNCHANGED <<again_vars, acc_vars, change_vars, sheet_vars, fetch_vars, retry_vars, dataframe, grouped, field, subfield, resolved, field_map, line_to_data_fallback>>

\* A call flatten_records(records, line_to_data_fallback) of
\* FG_Dispatch_data_fetch.py.
Call_flatten_records_FG_Dispatch ==
    /\ op = "idle"
    /\ \E recs \in SeqsUpTo(OperationDetailRecords, MaxRecords),
          table \in FallbackTables :
            /\ op' = "flatten_records"
            /\ script' = "FG_Dispatch"
            /\ records' = PyList(recs)
            /\ line_to_data_fallback' = table
            /\ flat_rows' = flatten_records_FG_Dispatch(PyList(recs), table)
            /\ UNCHANGED <<again_vars, acc_vars, change_vars, sheet_vars, fetch_vars, retry_vars, dataframe, grouped, field, subfield, resolved, field_map>>

\* The list a call of a flattener collects its rows in: each flattener binds
\* a new empty list when it is entered (flat_rows = [], out = [], or a list
\* comprehension), whatever an earlier call returned.
initial_rows_kept(previous) == previous

initial_rows(previous) == <<>>

\* The copy of flatten_records that script s calls.
flatten_of(s, recs, fmap, table) ==
    CASE s = "FG_Dispatch" -> flatten_records_FG_Dispatch(recs, table)
      [] s = "AR_Report" -> flatten_records_AR_Report(recs, fmap)
      [] s = "OA_ITEM_WISE" -> flatten_records_OA_ITEM_WISE(recs)
      [] s = "srnjnsr" -> flatten_records_srnjnsr(recs)
      [] s = "APR_Combone" -> flatten_invoice_records_APR_Combone(recs)
      [] s = "AR_invoice_status" -> flatten_invoice_summary_AR_invoice_status(recs)
      [] s = "OA_data_fetch" -> flat_records_OA_data_fetch(recs)
      [] s = "oa_export_overseas" -> flat_oa_export_overseas(recs)

\* What a call of script s's flattener returns when an earlier call returned
\* the rows previous.
flatten_after(s, recs, fmap, table, previous) ==
    LET rows == flatten_of(s, recs, fmap, table)
    IN  IF IsRaised(rows) THEN rows
        ELSE PyList(initial_rows(IF IsRaised(previous) THEN <<>> ELSE previous.items)
                    \o rows.items)

\* A second call of the flattener, on the records, the mapping and the
\* fallback table as the first call left them.  No flattener assigns to a
\* record, to the list of records, to the mapping or to the fallback table,
\* and none reads anything but its arguments.
Call_flatten_again ==
    /\ op = "flatten_records"
    /\ flat_rows_again = PyNone
    /\ flat_rows_again' = flatten_after(script, records, field_map,
                                        line_to_data_fallback, flat_rows)
    /\ records' = records
    /\ field_map' = field_map
    /\ line_to_data_fallback' = line_to_data_fallback
    /\ UNCHANGED <<change_vars, op, script, flat_rows, sheet_vars, fetch_vars, retry_vars,
                   acc_vars, dataframe, grouped, field, subfield, resolved>>

NextFlatten ==
    \/ Call_flatten_again
    \/ Call_flatten_records_FG_Dispatch
    \/ Call_flatten_records_AR_Report
    \/ Call_flatten_records_OA_ITEM_WISE
    \/ Call_flatten_records_srnjnsr
    \/ Call_flatten_invoice_records_APR_Combone
    \/ Call_flatten_invoice_summary_AR_invoice_status
    \/ Call_flatten_record_OA_data_fetch
    \/ Call_flatten_sale_record_oa_export_overseas

SpecFlatten == Init /\ [][NextFlatten]_vars

\* __main__ of APR_Combone_Inv_data_fetch.py, from flatten_invoice_records to
\* normalize_dates_and_group.
Aggregate_APR_Combone ==
    /\ op = "idle"
    /\ \E recs \in SeqsUpTo(AggInvoiceLineRecords, MaxRecords) :
            LET rows == flatten_invoice_records_APR_Combone(PyList(recs))
            IN  /\ op' = "aggregate"
                /\ script' = "APR_Combone"
                /\ records' = PyList(recs)
                /\ flat_rows' = rows
                /\ dataframe' = DataFrame(rows)
                /\ grouped' = normalize_dates_and_group_APR_Combone(DataFrame(rows))
                /\ UNCHANGED <<again_vars, acc_vars, change_vars, sheet_vars, fetch_vars, retry_vars, field, subfield, resolved, field_map, line_to_data_fallback>>

\* __main__ of AR_Report_combine_invoice.py, from flatten_records to
\* normalize_dates_and_group.
Aggregate_AR_Report ==
    /\ op = "idle"
    /\ \E recs \in SeqsUpTo(AggInvoiceLineRecords, MaxRecords) :
            LET rows == flatten_records_AR_Report(PyList(recs), COMBINE_INV_LINE_FIELD_MAP)
            IN  /\ op' = "aggregate"
                /\ script' = "AR_Report"
                /\ records' = PyList(recs)
                /\ field_map' = COMBINE_INV_LINE_FIELD_MAP
                /\ flat_rows' = rows
                /\ dataframe' = DataFrame(rows)
                /\ grouped' = normalize_dates_and_group_AR_Report(DataFrame(rows))
                /\ UNCHANGED <<again_vars, acc_vars, change_vars, sheet_vars, fetch_vars, retry_vars, field, subfield, resolved, line_to_data_fallback>>

\* One company of __main__ of OA_ITEM_WISE_data_fetch_odoo.py, from
\* flatten_records to df_grouped.
Aggregate_OA_ITEM_WISE ==
    /\ op = "idle"
    /\ \E recs \in AggSaleOrderRecordLists :
            LET rows == flatten_records_OA_ITEM_WISE(PyList(recs))
            IN  /\ op' = "aggregate"
                /\ script' = "OA_ITEM_WISE"
                /\ records' = PyList(recs)
                /\ flat_rows' = rows
                /\ dataframe' = DataFrame(rows)
                /\ grouped' = grouped_OA_ITEM_WISE(DataFrame(rows))
                /\ UNCHANGED <<again_vars, acc_vars, change_vars, sheet_vars, fetch_vars, retry_vars, field, subfield, resolved, field_map, line_to_data_fallback>>

\* One company of __main__ of srnjnsr_req_OA.py, from flatten_records to
\* df_grouped.
Aggregate_srnjnsr ==
    /\ op = "idle"
    /\ \E recs \in AggSaleOrderRecordLists :
            LET rows == flatten_records_srnjnsr(PyList(recs))
            IN  /\ op' = "aggregate"
                /\ script' = "srnjnsr"
                /\ records' = PyList(recs)
                /\ flat_rows' = rows
                /\ dataframe' = DataFrame(rows)
                /\ grouped' = grouped_srnjnsr(DataFrame(rows))
                /\ UNCHANGED <<again_vars, acc_vars, change_vars, sheet_vars, fetch_vars, retry_vars, field, subfield, resolved, field_map, line_to_data_fallback>>

\* __main__ of FG_Dispatch_data_fetch.py, from flatten_records to df_grouped,
\* with an empty fallback table.
Aggregate_FG_Dispatch ==
    /\ op = "idle"
    /\ \E recs \in SeqsUpTo(AggOperationDetailRecords, MaxGroupRows) :
            LET rows == flatten_records_FG_Dispatch(PyList(recs), <<>>)
            IN  /\ op' = "aggregate"
                /\ script' = "FG_Dispatch"
                /\ records' = PyList(recs)
                /\ line_to_data_fallback' = <<>>
                /\ flat_rows' = rows
                /\ dataframe' = DataFrame(rows)
                /\ grouped' = grouped_FG_Dispatch(DataFrame(rows))
                /\ UNCHANGED <<again_vars, acc_vars, change_vars, sheet_vars, fetch_vars, retry_vars, field, subfield, resolved, field_map>>

NextAggregate ==
    \/ Aggregate_APR_Combone
    \/ Aggregate_AR_Report
    \/ Aggregate_OA_ITEM_WISE
    \/ Aggregate_srnjnsr
    \/ Aggregate_FG_Dispatch

SpecAggregate == Init /\ [][NextAggregate]_vars

(***************************************************************************)
(* The paginated fetch loops.                                              *)
(*                                                                         *)
(* The server answers a web_search_read request in one of three ways:     *)
(*   [kind |-> "page", records |-> ...]  the records that match, from     *)
(*                                       offset on, at most limit of them *)
(*   [kind |-> "http_error"]             a status raise_for_status raises *)
(*                                       for                              *)
(*   [kind |-> "rpc_error"]              a JSON-RPC body with the member  *)
(*                                       "error" and without "result"     *)
(***************************************************************************)
\* min(a, b)
Min(a, b) == IF a < b THEN a ELSE b

\* The records web_search_read serves for "offset" and "limit".
page_of(all, off, limit) == SubSeq(all, off + 1, Min(off + limit, Len(all)))

\* The answers the server can give to a request.
Responses(all, off, limit) ==
    {[kind |-> "page", records |-> page_of(all, off, limit)],
     [kind |-> "http_error"],
     [kind |-> "rpc_error"]}

\* fetch_invoice_lines of APR_Combone_Inv_data_fetch.py, from the request to
\* records: resp.raise_for_status(); resp.json()["result"].get("records", [])
records_APR_Combone(resp) ==
    CASE resp.kind = "http_error" -> Raised("HTTPError")
      [] resp.kind = "rpc_error" -> Raised("KeyError")
      [] resp.kind = "page" -> PyList(resp.records)

\* odoo_web_search_read of AR_Report_combine_invoice.py: call_odoo_rpc raises
\* for a status and for a body with "error".
records_AR_Report(resp) ==
    CASE resp.kind = "http_error" -> Raised("HTTPError")
      [] resp.kind = "rpc_error" -> Raised("RuntimeError")
      [] resp.kind = "page" -> PyList(resp.records)

\* fetch_all_data of OA_data_fetch_odoo.py: resp.json()['result']['records']
records_OA_data_fetch(resp) ==
    CASE resp.kind = "http_error" -> Raised("HTTPError")
      [] resp.kind = "rpc_error" -> Raised("KeyError")
      [] resp.kind = "page" -> PyList(resp.records)

\* fetch_sale_orders of oa_export_overseas.py: the status is raised again,
\* body.get("result", {}).get("records", []) is [] for a body with "error".
records_oa_export_overseas(resp) ==
    CASE resp.kind = "http_error" -> Raised("HTTPError")
      [] resp.kind = "rpc_error" -> PyList(<<>>)
      [] resp.kind = "page" -> PyList(resp.records)

\* if len(records) <= batch_size: break (a full page ends the loop too)
last_page_or_full(recs, limit) == Len(recs) <= limit

\* if len(records) < batch_size: break
last_page(recs, limit) == Len(recs) < limit

\* The call of a paginated fetch: all_records = [], offset = 0, for an
\* upstream of N records and a page size.
Call_fetch(s) ==
    /\ op = "idle"
    /\ \E N \in 0..MaxUpstream, B \in 1..MaxBatch :
            /\ op' = "fetching"
            /\ script' = s
            /\ upstream' = [i \in 1..N |-> PyInt(i)]
            /\ batch_size' = B
            /\ offset' = 0
            /\ all_records' = <<>>
            /\ requests' = <<>>
            /\ pages' = <<>>
            /\ fetched' = PyNone
            /\ matched_throughout' = {PyInt(i) : i \in 1..N}
            /\ changes' = 0
            /\ UNCHANGED <<again_vars, acc_vars, sheet_vars, retry_vars, dataframe, grouped, field, subfield, resolved, records,
                           field_map, line_to_data_fallback, flat_rows>>

\* One iteration of "while True": the request, the answer as the script
\* reads it (recs), all_records.extend(records), then the break and the
\* return, or offset += batch_size.
Iterate_fetch(s, recs) ==
    /\ requests' = Append(requests, offset)
    /\ IF IsRaised(recs)
          THEN /\ op' = "fetch_raised"
               /\ fetched' = recs
               /\ UNCHANGED <<offset, all_records, pages>>
          ELSE /\ all_records' = all_records \o recs.items
               /\ pages' = Append(pages, recs.items)
               /\ IF last_page(recs.items, batch_size)
                     THEN /\ op' = "fetched"
                          /\ fetched' = PyList(all_records \o recs.items)
                          /\ offset' = offset
                     ELSE /\ op' = "fetching"
                          /\ fetched' = PyNone
                          /\ offset' = offset + batch_size
    /\ UNCHANGED <<script, upstream, batch_size>>
    /\ UNCHANGED <<again_vars, acc_vars, change_vars, sheet_vars, retry_vars, dataframe, grouped, field, subfield, resolved, records,
                   field_map, line_to_data_fallback, flat_rows>>

Call_fetch_invoice_lines_APR_Combone == Call_fetch("APR_Combone")

Request_fetch_invoice_lines_APR_Combone ==
    /\ op = "fetching"
    /\ script = "APR_Combone"
    /\ \E resp \in Responses(upstream, offset, batch_size) :
            Iterate_fetch("APR_Combone", records_APR_Combone(resp))

Call_odoo_web_search_read_AR_Report == Call_fetch("AR_Report")

Request_odoo_web_search_read_AR_Report ==
    /\ op = "fetching"
    /\ script = "AR_Report"
    /\ \E resp \in Responses(upstream, offset, batch_size) :
            Iterate_fetch("AR_Report", records_AR_Report(resp))

Call_fetch_all_data_OA_data_fetch == Call_fetch("OA_data_fetch")

Request_fetch_all_data_OA_data_fetch ==
    /\ op = "fetching"
    /\ script = "OA_data_fetch"
    /\ \E resp \in Responses(upstream, offset, batch_size) :
            Iterate_fetch("OA_data_fetch", records_OA_data_fetch(resp))

Call_fetch_sale_orders_oa_export_overseas == Call_fetch("oa_export_overseas")

Request_fetch_sale_orders_oa_export_overseas ==
    /\ op = "fetching"
    /\ script = "oa_export_overseas"
    /\ \E resp \in Responses(upstream, offset, batch_size) :
            Iterate_fetch("oa_export_overseas", records_oa_export_overseas(resp))

NextFetch ==
    \/ Call_fetch_invoice_lines_APR_Combone
    \/ Request_fetch_invoice_lines_APR_Combone
    \/ Call_odoo_web_search_read_AR_Report
    \/ Request_odoo_web_search_read_AR_Report
    \/ Call_fetch_all_data_OA_data_fetch
    \/ Request_fetch_all_data_OA_data_fetch
    \/ Call_fetch_sale_orders_oa_export_overseas
    \/ Request_fetch_sale_orders_oa_export_overseas

SpecFetch == Init /\ [][NextFetch]_vars

\* fetch_operation_details of FG_Dispatch_data_fetch.py:
\* resp.raise_for_status(), ValueError for a body with "error".
records_FG_Dispatch(resp) ==
    CASE resp.kind = "http_error" -> Raised("HTTPError")
      [] resp.kind = "rpc_error" -> Raised("ValueError")
      [] resp.kind = "page" -> PyList(resp.records)

\* The call of fetch_operation_details for one company: the count request,
\* which raises as a page request does, then all_records = [], offset = 0.
Call_fetch_operation_details_FG_Dispatch ==
    /\ op = "idle"
    /\ \E N \in 0..MaxUpstream, B \in 1..MaxBatch,
          count_resp \in Responses(<<>>, 0, 1) :
            LET count == records_FG_Dispatch(count_resp)
            IN  /\ op' = IF IsRaised(count) THEN "fetch_raised" ELSE "fetching"
                /\ script' = "FG_Dispatch"
                /\ upstream' = [i \in 1..N |-> PyInt(i)]
                /\ batch_size' = B
                /\ offset' = 0
                /\ all_records' = <<>>
                /\ requests' = <<>>
                /\ pages' = <<>>
                /\ fetched' = IF IsRaised(count) THEN count ELSE PyNone
                /\ matched_throughout' = {PyInt(i) : i \in 1..N}
                /\ changes' = 0
                /\ UNCHANGED <<again_vars, acc_vars, sheet_vars, retry_vars, dataframe,
                               grouped, field, subfield, resolved, records,
                               field_map, line_to_data_fallback, flat_rows>>

Request_fetch_operation_details_FG_Dispatch ==
    /\ op = "fetching"
    /\ script = "FG_Dispatch"
    /\ \E resp \in Responses(upstream, offset, batch_size) :
            Iterate_fetch("FG_Dispatch", records_FG_Dispatch(resp))

\* The most records upstream inserts or deletes during one fetch.
MaxChanges == 2

\* Between two page requests a record that matches the query is created
\* upstream: the scripts send order "" and the server places the record
\* anywhere in its order.
Insert_upstream ==
    /\ op = "fetching"
    /\ Len(requests) >= 1
    /\ changes < MaxChanges
    /\ \E p \in 1..(Len(upstream) + 1) :
            upstream' = SubSeq(upstream, 1, p - 1)
                          \o <<PyInt(MaxUpstream + changes + 1)>>
                          \o SubSeq(upstream, p, Len(upstream))
    /\ changes' = changes + 1
    /\ UNCHANGED <<op, script, batch_size, offset, all_records, requests, pages,
                   fetched, matched_throughout>>
    /\ UNCHANGED <<again_vars, acc_vars, sheet_vars, retry_vars, dataframe, grouped,
                   field, subfield, resolved, records, field_map,
                   line_to_data_fallback, flat_rows>>

\* Between two page requests a record is deleted upstream, or stops matching
\* the query.
Delete_upstream ==
    /\ op = "fetching"
    /\ Len(requests) >= 1
    /\ changes < MaxChanges
    /\ \E p \in 1..Len(upstream) :
            /\ upstream' = SubSeq(upstream, 1, p - 1)
                              \o SubSeq(upstream, p + 1, Len(upstream))
            /\ matched_throughout' = matched_throughout \ {upstream[p]}
    /\ changes' = changes + 1
    /\ UNCHANGED <<op, script, batch_size, offset, all_records, requests, pages,
                   fetched>>
    /\ UNCHANGED <<again_vars, acc_vars, sheet_vars, retry_vars, dataframe, grouped,
                   field, subfield, resolved, records, field_map,
                   line_to_data_fallback, flat_rows>>

\* The fetches of APR_Combone and FG_Dispatch against an upstream that
\* changes while the pages are requested.
NextFetchChanging ==
    \/ Call_fetch_invoice_lines_APR_Combone
    \/ Request_fetch_invoice_lines_APR_Combone
    \/ Call_fetch_operation_details_FG_Dispatch
    \/ Request_fetch_operation_details_FG_Dispatch
    \/ Insert_upstream
    \/ Delete_upstream

SpecFetchChanging == Init /\ [][NextFetchChanging]_vars

(***************************************************************************)
(* The retry loops of FG_Dispatch_data_fetch.py and                        *)
(* OA_ITEM_WISE_data_fetch_odoo.py. An attempt is one pass through the     *)
(* body of "try"; it ends "completed", "no_data" (the table was empty), or *)
(* with an exception raised by one of its steps, named after the step.     *)
(***************************************************************************)
MAX_RETRIES == 2

\* company_map of OA_ITEM_WISE_data_fetch_odoo.py: the company ids.
company_map == <<1, 3>>

\* The unit of work of FG_Dispatch: the whole pipeline, for both companies.
Pipeline == 0

\* The steps of an attempt that can raise.
StepsOf(s) ==
    IF s = "FG_Dispatch"
        THEN {"odoo_login", "fetch_operation_details", "fetch_invoice_data",
              "flatten_records", "groupby", "to_excel", "paste_to_gsheet"}
    ELSE {"fetch_sale_orders_for_company", "flatten_records", "groupby",
          "paste_to_gsheet"}

\* The ways an attempt can end.
Ends(s) == {"completed", "no_data"} \cup StepsOf(s)

\* The attempt ended without an exception.
succeeded(ended) == ended \in {"completed", "no_data"}

\* while retries <= MAX_RETRIES (one attempt more)
may_attempt_once_more(r) == r <= MAX_RETRIES

\* while retries < MAX_RETRIES
may_attempt(r) == r < MAX_RETRIES

\* companies of __main__ of FG_Dispatch_data_fetch.py.
companies == <<1, 3>>

\* The operation.details records upstream may hold for the companies, each
\* record named by its id: the records 1 and 3 carry an invoice line without
\* invoice_date, whose id (10 + the record's id) needs the fallback fetch.
CompanyRecords ==
    {<<c1, c3>> : c1 \in {<<>>, <<1>>, <<1, 2>>}, c3 \in {<<>>, <<3>>, <<4, 3>>}}

\* The ids collected for the fallback fetch from the records of one company.
fallback_ids_of(recs) ==
    {10 + recs[i] : i \in {i \in 1..Len(recs) : recs[i] \in {1, 3}}}

\* all_records = [] and unique_line_ids_for_fallback = set() inside the try:
\* each attempt binds new empty accumulators.  new_list_kept is the list of a
\* script that binds all_records once, before the loop.
new_list_kept(previous) == previous

new_list(previous) == <<>>

new_set(previous) == {}

\* The number of companies whose records an attempt has added to the
\* accumulators when it ends: none when odoo_login raised, the companies
\* before the one whose fetch raised, else all.
companies_fetched(ended, raising) ==
    IF ended = "odoo_login" THEN 0
    ELSE IF ended = "fetch_operation_details" THEN raising - 1
    ELSE Len(companies)

\* for company_id in companies: all_records.extend(records), for the first n
\* companies.
RECURSIVE extend_companies(_, _, _)
extend_companies(acc, recs, n) ==
    IF n = 0 THEN acc
    ELSE extend_companies(acc, recs, n - 1) \o recs[n]

\* for record in records: ... unique_line_ids_for_fallback.add(lid), for the
\* first n companies.
RECURSIVE add_fallback_ids(_, _, _)
add_fallback_ids(ids, recs, n) ==
    IF n = 0 THEN ids
    ELSE add_fallback_ids(ids, recs, n - 1) \cup fallback_ids_of(recs[n])

\* df.empty for the table of an attempt that fetched every company: the
\* flattener gives a row for each record.
no_records(recs) == \A c \in 1..Len(recs) : Len(recs[c]) = 0

\* __main__ of FG_Dispatch_data_fetch.py up to the loop: retries = 0.
Start_FG_Dispatch ==
    /\ op = "idle"
    /\ op' = "retrying"
    /\ script' = "FG_Dispatch"
    /\ retries' = 0
    /\ attempts' = <<>>
    /\ exit_status' = "running"
    /\ \E recs \in CompanyRecords : records_of_company' = recs
    /\ all_records_FG' = <<>>
    /\ unique_line_ids_for_fallback' = {}
    /\ UNCHANGED <<change_vars, again_vars, company, sheet_vars, fetch_vars, dataframe, grouped, field, subfield, resolved,
                   records, field_map, line_to_data_fallback, flat_rows>>

\* One iteration of the loop of FG_Dispatch: the attempt, then "break" (the
\* script ends), or retries += 1 and the sleep, or the raise when
\* retries has reached MAX_RETRIES.  The attempt starts with new
\* accumulators and adds the records of each company it fetches; when
\* fetch_operation_details raises, it raises for the company at position
\* raising.
Attempt_FG_Dispatch ==
    /\ op = "retrying"
    /\ script = "FG_Dispatch"
    /\ exit_status = "running"
    /\ may_attempt(retries)
    /\ \E ended \in Ends("FG_Dispatch"), raising \in 1..Len(companies) :
            /\ ended = "no_data" => no_records(records_of_company)
            /\ ended \in {"completed", "groupby", "to_excel", "paste_to_gsheet"}
                    => ~no_records(records_of_company)
            /\ attempts' = Append(attempts, [unit |-> Pipeline, ended |-> ended])
            /\ all_records_FG' =
                    extend_companies(new_list(all_records_FG), records_of_company,
                                     companies_fetched(ended, raising))
            /\ unique_line_ids_for_fallback' =
                    add_fallback_ids(new_set(unique_line_ids_for_fallback),
                                     records_of_company,
                                     companies_fetched(ended, raising))
            /\ IF succeeded(ended)
                  THEN /\ retries' = retries
                       /\ exit_status' = "ok"
                  ELSE /\ retries' = retries + 1
                       /\ exit_status' = IF retries + 1 < MAX_RETRIES
                                             THEN "running" ELSE "error"
    /\ UNCHANGED <<change_vars, again_vars, records_of_company, op, script, company, sheet_vars, fetch_vars, dataframe, grouped, field, subfield,
                   resolved, records, field_map, line_to_data_fallback, flat_rows>>

\* __main__ of OA_ITEM_WISE_data_fetch_odoo.py up to the first company:
\* odoo_login() is outside every try.
Start_OA_ITEM_WISE ==
    /\ op = "idle"
    /\ op' = "retrying"
    /\ script' = "OA_ITEM_WISE"
    /\ retries' = 0
    /\ company' = 1
    /\ attempts' = <<>>
    /\ \E login \in {"logged_in", "raised"} :
            exit_status' = IF login = "raised" THEN "error" ELSE "running"
    /\ UNCHANGED <<again_vars, acc_vars, change_vars, sheet_vars, fetch_vars, dataframe, grouped, field, subfield, resolved,
                   records, field_map, line_to_data_fallback, flat_rows>>

\* One iteration of the loop of a company of OA_ITEM_WISE: the attempt, then
\* "break", or retries += 1 and the message; when the loop is left the next
\* company starts with retries = 0, and after the last company the script
\* ends.
Attempt_OA_ITEM_WISE ==
    /\ op = "retrying"
    /\ script = "OA_ITEM_WISE"
    /\ exit_status = "running"
    /\ company <= Len(company_map)
    /\ may_attempt(retries)
    /\ \E ended \in Ends("OA_ITEM_WISE") :
            LET r == IF succeeded(ended) THEN retries ELSE retries + 1
                leaves == succeeded(ended) \/ ~may_attempt(r)
            IN  /\ attempts' = Append(attempts,
                                      [unit |-> company_map[company], ended |-> ended])
                /\ company' = IF leaves THEN company + 1 ELSE company
                /\ retries' = IF leaves /\ company < Len(company_map) THEN 0 ELSE r
                /\ exit_status' = IF leaves /\ company = Len(company_map)
                                      THEN "ok" ELSE "running"
    /\ UNCHANGED <<again_vars, acc_vars, change_vars, op, script, sheet_vars, fetch_vars, dataframe, grouped, field, subfield,
                   resolved, records, field_map, line_to_data_fallback, flat_rows>>

NextRetry ==
    \/ Start_FG_Dispatch
    \/ Attempt_FG_Dispatch
    \/ Start_OA_ITEM_WISE
    \/ Attempt_OA_ITEM_WISE

SpecRetry == Init /\ [][NextRetry]_vars

(***************************************************************************)
(* The sheet writers. A cell of the worksheet holds "" (empty), "old" (a   *)
(* cell of the table the previous run wrote), "old_ts" (its timestamp),    *)
(* "new" (a cell of the table of this run) or "new_ts" (its timestamp).    *)
(* A column is named as in A1 notation, by its letters: <<"A", "G">> is    *)
(* column AG.                                                              *)
(***************************************************************************)
ColumnLetters ==
    <<"A", "B", "C", "D", "E", "F", "G", "H", "I", "J", "K", "L", "M",
      "N", "O", "P", "Q", "R", "S", "T", "U", "V", "W", "X", "Y", "Z">>

letter_index(l) == CHOOSE i \in 1..Len(ColumnLetters) : ColumnLetters[i] = l

\* The number of the column with the letters: A is 1, Z is 26, AA is 27.
RECURSIVE column_index(_)
column_index(letters) ==
    IF Len(letters) = 0 THEN 0
    ELSE Len(ColumnLetters) * column_index(SubSeq(letters, 1, Len(letters) - 1))
            + letter_index(letters[Len(letters)])

SheetRows == MaxDataRows + 1
Cells == (1..SheetRows) \X (1..SheetCols)
blank == [cell \in Cells |-> ""]

\* The scripts that write a sheet.
SheetScripts ==
    {"APR_Combone", "AR_Report", "AR_invoice_status", "FG_Dispatch",
     "OA_ITEM_WISE", "srnjnsr", "OA_data_fetch", "oa_export_overseas"}

\* The columns the writer clears: batch_clear(["A:V"]); worksheet.clear() of
\* OA_data_fetch_odoo.py clears every column.
clear_range(s) ==
    CASE s = "APR_Combone" -> [from |-> <<"A">>, to |-> <<"V">>]
      [] s = "AR_Report" -> [from |-> <<"A">>, to |-> <<"A", "G">>]
      [] s = "AR_invoice_status" -> [from |-> <<"A">>, to |-> <<"S">>]
      [] s = "FG_Dispatch" -> [from |-> <<"A">>, to |-> <<"T">>]
      [] s = "OA_ITEM_WISE" -> [from |-> <<"A">>, to |-> <<"R">>]
      [] s = "srnjnsr" -> [from |-> <<"A">>, to |-> <<"Z">>]
      [] s = "oa_export_overseas" -> [from |-> <<"A">>, to |-> <<"P">>]

\* The column of the cell the writer puts "Last Updated" into, in row 1;
\* upload_to_sheet of OA_data_fetch_odoo.py writes none.
timestamp_column(s) ==
    CASE s = "APR_Combone" -> <<"W">>
      [] s = "AR_Report" -> <<"A", "I">>
      [] s = "AR_invoice_status" -> <<"T">>
      [] s = "FG_Dispatch" -> <<"U">>
      [] s = "OA_ITEM_WISE" -> <<"S">>
      [] s = "srnjnsr" -> <<"A", "A">>
      [] s = "oa_export_overseas" -> <<"P">>
      [] s = "OA_data_fetch" -> <<>>

\* One upstream record without fields, and one sale order with one such
\* order line: every script gives a table with all its columns for it.
OneRecord == PyList(<<PyDict(<<>>)>>)
OneOrder == PyList(<<PyDict(<<[k |-> "order_line", v |-> OneRecord]>>)>>)

\* The number of columns of the table the script hands to its writer.
table_width(s) ==
    CASE s = "APR_Combone" ->
            Len(normalize_dates_and_group_APR_Combone(
                    DataFrame(flatten_invoice_records_APR_Combone(OneRecord))).columns)
      [] s = "AR_Report" ->
            Len(normalize_dates_and_group_AR_Report(
                    DataFrame(flatten_records_AR_Report(
                                  OneRecord, COMBINE_INV_LINE_FIELD_MAP))).columns)
      [] s = "AR_invoice_status" ->
            Len(DataFrame(flatten_invoice_summary_AR_invoice_status(OneRecord)).columns)
      [] s = "FG_Dispatch" ->
            Len(grouped_FG_Dispatch(
                    DataFrame(flatten_records_FG_Dispatch(OneRecord, <<>>))).columns)
      [] s = "OA_ITEM_WISE" ->
            Len(grouped_OA_ITEM_WISE(
                    DataFrame(flatten_records_OA_ITEM_WISE(OneOrder))).columns)
      [] s = "srnjnsr" ->
            Len(grouped_srnjnsr(DataFrame(flatten_records_srnjnsr(OneOrder))).columns)
      [] s = "OA_data_fetch" ->
            Len(DataFrame(flat_records_OA_data_fetch(OneRecord)).columns)
      [] s = "oa_export_overseas" ->
            Len(DataFrame(flat_oa_export_overseas(OneRecord)).columns)

\* "if df.empty: return" comes before the clear.
skips_empty(s) == s \notin {"OA_data_fetch", "oa_export_overseas"}

\* The scripts that call their writer inside a retry loop.
retries_paste(s) == s \in {"FG_Dispatch", "OA_ITEM_WISE"}

\* worksheet.batch_clear([range]) and worksheet.clear()
clear(ws, s) ==
    IF s = "OA_data_fetch" THEN blank
    ELSE [cell \in Cells |->
            IF /\ cell[2] >= column_index(clear_range(s).from)
               /\ cell[2] <= column_index(clear_range(s).to)
                THEN "" ELSE ws[cell]]

\* set_with_dataframe(worksheet, df) and worksheet.update(header + values):
\* the header row and the data rows, from A1 on.
set_with_dataframe(ws, rows, width, tag) ==
    [cell \in Cells |->
        IF cell[1] <= rows + 1 /\ cell[2] <= width THEN tag ELSE ws[cell]]

\* worksheet.update("W1", [[...]])
update(ws, column, tag) ==
    [cell \in Cells |-> IF cell = <<1, column>> THEN tag ELSE ws[cell]]

\* The worksheet a previous run left: never written, or the table of p data
\* rows the same writer wrote and its timestamp.
previous(s, p) ==
    IF p = 0 THEN blank
    ELSE LET table == set_with_dataframe(clear(blank, s), p, table_width(s), "old")
         IN  IF s = "OA_data_fetch" THEN table
             ELSE update(table, column_index(timestamp_column(s)), "old_ts")

\* The call of a writer with a table of n data rows, on the worksheet a
\* previous run left.
Call_paste_to_gsheet ==
    /\ op = "idle"
    /\ \E s \in SheetScripts, p \in 0..MaxDataRows, n \in 0..MaxDataRows :
            /\ op' = "paste"
            /\ script' = s
            /\ old_rows' = p
            /\ new_rows' = n
            /\ worksheet' = previous(s, p)
            /\ paste_pc' = IF n = 0 /\ skips_empty(s) THEN "skipped" ELSE "clear"
    /\ UNCHANGED <<again_vars, acc_vars, change_vars, retry_vars, fetch_vars, dataframe, grouped, field, subfield, resolved,
                   records, field_map, line_to_data_fallback, flat_rows>>

\* A call of the sheet API raised: inside a retry loop with attempts left the
\* attempt is repeated and the writer is called again, else the run ends.
paste_failed ==
    /\ IF retries_paste(script) /\ retries + 1 < MAX_RETRIES
          THEN paste_pc' = "clear"
          ELSE paste_pc' = "failed"
    /\ retries' = IF retries_paste(script) THEN retries + 1 ELSE retries
    /\ UNCHANGED worksheet

\* worksheet.batch_clear(...) / worksheet.clear()
Clear_worksheet ==
    /\ paste_pc = "clear"
    /\ \E answer \in {"done", "raised"} :
            IF answer = "raised" THEN paste_failed
            ELSE /\ worksheet' = clear(worksheet, script)
                 /\ paste_pc' = IF new_rows = 0 /\ script = "oa_export_overseas"
                                    THEN "timestamp" ELSE "write"
                 /\ UNCHANGED retries
    /\ UNCHANGED <<again_vars, acc_vars, change_vars, op, script, old_rows, new_rows, company, attempts, exit_status,
                   fetch_vars, dataframe, grouped, field, subfield, resolved,
                   records, field_map, line_to_data_fallback, flat_rows>>

\* set_with_dataframe(...) / worksheet.update(header + values)
Write_table ==
    /\ paste_pc = "write"
    /\ \E answer \in {"done", "raised"} :
            IF answer = "raised" THEN paste_failed
            ELSE /\ worksheet' = set_with_dataframe(worksheet, new_rows,
                                                    table_width(script), "new")
                 /\ paste_pc' = IF script = "OA_data_fetch" THEN "done" ELSE "timestamp"
                 /\ UNCHANGED retries
    /\ UNCHANGED <<again_vars, acc_vars, change_vars, op, script, old_rows, new_rows, company, attempts, exit_status,
                   fetch_vars, dataframe, grouped, field, subfield, resolved,
                   records, field_map, line_to_data_fallback, flat_rows>>

\* worksheet.update(<timestamp cell>, [["Last Updated: ..."]])
Write_timestamp ==
    /\ paste_pc = "timestamp"
    /\ \E answer \in {"done", "raised"} :
            IF answer = "raised" THEN paste_failed
            ELSE /\ worksheet' = update(worksheet,
                                        column_index(timestamp_column(script)), "new_ts")
                 /\ paste_pc' = "done"
                 /\ UNCHANGED retries
    /\ UNCHANGED <<again_vars, acc_vars, change_vars, op, script, old_rows, new_rows, company, attempts, exit_status,
                   fetch_vars, dataframe, grouped, field, subfield, resolved,
                   records, field_map, line_to_data_fallback, flat_rows>>

NextPaste ==
    \/ Call_paste_to_gsheet
    \/ Clear_worksheet
    \/ Write_table
    \/ Write_timestamp

SpecPaste == Init /\ [][NextPaste]_vars

(***************************************************************************)
(* Properties of get_string_value, checked under Spec.                     *)
(***************************************************************************)
\* The display name of a mapping that holds the key display_name.
display_name_of(m) == getitem(m, "display_name")

\* C1: in every script's copy, get_string_value of False or of None, with or
\* without a subfield, is the empty string.
C1_FalseOrNoneResolvesEmpty ==
    (op = "get_string_value" /\ field \in {PyFalse, PyNone})
        => resolved = PyStr("")

\* C2: in every script's copy, get_string_value of a two-element list
\* [id, label] is str(label).
C2_PairResolvesToLabel ==
    (op = "get_string_value" /\ field.t = "list" /\ Len(field.items) = 2)
        => resolved = str(field.items[2])

\* C3: for a mapping that holds display_name, get_string_value without a
\* subfield is str(m["display_name"]), or "" when that value is falsy,
\* whatever other keys the mapping holds.
C3_DisplayNameResolved ==
    (/\ op = "get_string_value"
     /\ field.t = "dict"
     /\ contains_key(field, "display_name")
     /\ subfield = PyNone)
        => resolved = (IF Truthy(display_name_of(field))
                          THEN str(display_name_of(field))
                          ELSE PyStr(""))

\* C3 witness: a copy resolved a mapping with a falsy display name and a
\* second key to "".
C3_Witness ==
    /\ op = "get_string_value"
    /\ script = "FG_Dispatch"
    /\ subfield = PyNone
    /\ field = PyDict(<<[k |-> "name", v |-> PyStr("Acme")],
                        [k |-> "display_name", v |-> PyFalse]>>)
    /\ resolved = PyStr("")

\* C4: for a mapping without display_name, get_string_value without a
\* subfield is the str() of every value of the mapping, None and False
\* included, in the mapping's order, joined by single spaces, in every
\* script's copy.
C4_FallbackJoinsAllValues ==
    (/\ op = "get_string_value"
     /\ field.t = "dict"
     /\ ~contains_key(field, "display_name")
     /\ subfield = PyNone)
        => resolved =
             PyStr(join(" ", [i \in 1..Len(field.items) |-> str(field.items[i].v).s]))

\* C5: get_string_value is total: for every value and every subfield
\* (absent or a string) it returns a str and raises nothing.
C5_ResolverTotal ==
    op = "get_string_value" => resolved.t = "str"

\* C5 witness: a copy was asked for a subfield the mapping does not hold, and
\* returned "".
C5_Witness ==
    /\ op = "get_string_value"
    /\ script = "srnjnsr"
    /\ subfield = PyStr("brand")
    /\ field = PyDict(<<[k |-> "display_name", v |-> PyStr("Acme")],
                        [k |-> "name", v |-> PyList(<<PyInt(7), PyStr("SO1")>>)]>>)
    /\ resolved = PyStr("")

(***************************************************************************)
(* Properties of the flatteners, checked under SpecFlatten.                *)
(***************************************************************************)
\* The column names of a row, in order.
keys_of(row) == [i \in 1..Len(row.items) |-> row.items[i].k]

\* C6: in flatten_records(records, field_map) of AR_Report, a field holding
\* a bare integer n under a nested-field rule (field, subfield) raises
\* nothing and yields the decimal string of n: the subfield is ignored.
C6_BareIntegerUnderNestedRule ==
    (op = "flatten_records" /\ script = "AR_Report")
        => /\ flat_rows.t = "list"
           /\ Len(flat_rows.items) = Len(records.items)
           /\ \A i \in 1..Len(records.items), c \in 1..Len(field_map.items) :
                LET r == records.items[i]
                    spec == field_map.items[c].v
                IN  (/\ r.t = "dict"
                     /\ spec.t = "tuple" /\ Len(spec.items) = 2
                     /\ spec.items[1].t = "str"
                     /\ contains_key(r, spec.items[1].s)
                     /\ getitem(r, spec.items[1].s).t = "int")
                      => flat_rows.items[i].items[c].v =
                            PyStr(IntToStr(getitem(r, spec.items[1].s).n))

\* C6 witness: the record {"partner_id": 12345} under the rule
\* ("partner_id", "display_name") gave the column "12345".
C6_Witness ==
    /\ op = "flatten_records"
    /\ script = "AR_Report"
    /\ records = PyList(<<PyDict(<<[k |-> "partner_id", v |-> PyInt(12345)]>>)>>)
    /\ field_map = PyDict(<<[k |-> "Customer",
                             v |-> PyTuple(<<PyStr("partner_id"),
                                             PyStr("display_name")>>)]>>)
    /\ flat_rows = PyList(<<PyDict(<<[k |-> "Customer", v |-> PyStr("12345")]>>)>>)

\* C7: all rows a flattener emits have the same column names in the same
\* order; for AR_Report that order is the order of field_map's keys.
C7_UniformColumns ==
    (op = "flatten_records" /\ flat_rows.t = "list")
        => /\ \A i, j \in 1..Len(flat_rows.items) :
                keys_of(flat_rows.items[i]) = keys_of(flat_rows.items[j])
           /\ script = "AR_Report" =>
                \A i \in 1..Len(flat_rows.items) :
                    keys_of(flat_rows.items[i]) = keys_of(field_map)

\* C7 witness: srnjnsr emitted a row from the branch with invoice lines and a
\* row from the branch without.
C7_Witness ==
    /\ op = "flatten_records"
    /\ script = "srnjnsr"
    /\ flat_rows.t = "list"
    /\ \E i, j \in 1..Len(flat_rows.items) :
        /\ getitem(flat_rows.items[i], "Invoice Number") = PyStr("INV1")
        /\ getitem(flat_rows.items[j], "Invoice Number") = PyStr("")
        /\ getitem(flat_rows.items[j], "Order Reference") = PyStr("SO2")

\* C8: in flatten_records(records, field_map) of AR_Report, a column whose
\* rule raises for a record is "" in that record's row, every other column
\* holds the value its rule extracts, and every record yields exactly one row.
C8_ColumnFailureIsolated ==
    (op = "flatten_records" /\ script = "AR_Report")
        => /\ flat_rows.t = "list"
           /\ Len(flat_rows.items) = Len(records.items)
           /\ \A i \in 1..Len(records.items), c \in 1..Len(field_map.items) :
                LET extracted ==
                        rule_value_AR_Report(records.items[i], field_map.items[c].v)
                IN  /\ flat_rows.items[i].items[c].k = field_map.items[c].k
                    /\ flat_rows.items[i].items[c].v =
                         (IF IsRaised(extracted) THEN PyStr("") ELSE extracted)

\* C8 witness: a first record for which one column's rule raised and another
\* column resolved to a non-empty value, followed by a second record's row.
C8_Witness ==
    /\ op = "flatten_records"
    /\ script = "AR_Report"
    /\ flat_rows.t = "list"
    /\ Len(flat_rows.items) = 2
    /\ \E c, d \in 1..Len(field_map.items) :
        /\ IsRaised(rule_value_AR_Report(records.items[1], field_map.items[c].v))
        /\ flat_rows.items[1].items[c].v = PyStr("")
        /\ flat_rows.items[1].items[d].v = PyStr("Acme")

\* C9: flatten_records of OA_ITEM_WISE and of srnjnsr raises for no record
\* whose fields take a documented RawValue shape (order_line False or None,
\* order_id a bare integer or an [id, label] pair, invoice_lines holding
\* non-mapping elements).
C9_FlattenNeverRaises ==
    (op = "flatten_records" /\ script \in {"OA_ITEM_WISE", "srnjnsr"})
        => flat_rows.t = "list"

\* The columns read from the order (order_id) of an order line.
OrderLevelColumns ==
    {"Order Reference", "Sales Order Ref.", "Buyer", "Brand Group",
     "Buying House", "Company", "Customer", "Customer Group", "Order Date",
     "Sales Team", "Salesperson", "LC Number", "Payment Terms", "Status"}

\* The record is a sale order with N >= 1 order lines, none of them with
\* invoice lines.
HasPlainOrderLines(record) ==
    /\ record.t = "dict"
    /\ contains_key(record, "order_line")
    /\ getitem(record, "order_line").t = "list"
    /\ Len(getitem(record, "order_line").items) >= 1
    /\ \A l \in 1..Len(getitem(record, "order_line").items) :
        LET line == getitem(record, "order_line").items[l]
        IN  /\ line.t = "dict"
            /\ ~Truthy(method_get(line, PyStr("invoice_lines"), PyNone))

\* C10: a sale order with N >= 1 order lines (none with invoice lines) gives
\* exactly N rows, all with the same values in the order-level columns,
\* whatever the lines hold.
C10_FanOutSharesOrderColumns ==
    (/\ op = "flatten_records"
     /\ script \in {"OA_ITEM_WISE", "srnjnsr"}
     /\ Len(records.items) = 1
     /\ HasPlainOrderLines(records.items[1]))
        => /\ flat_rows.t = "list"
           /\ Len(flat_rows.items) = Len(getitem(records.items[1], "order_line").items)
           /\ \A i, j \in 1..Len(flat_rows.items), c \in OrderLevelColumns :
                getitem(flat_rows.items[i], c) = getitem(flat_rows.items[j], c)

\* The record is a sale order whose order_line list is empty.
HasEmptyOrderLine(record) ==
    /\ record.t = "dict"
    /\ contains_key(record, "order_line")
    /\ getitem(record, "order_line") = PyList(<<>>)

\* C11: a sale order whose order_line list is empty gives exactly one row:
\* when every record of the call is such an order, flatten_records of
\* OA_ITEM_WISE and of srnjnsr emits as many rows as records.
C11_EmptyOrderKeepsRow ==
    (/\ op = "flatten_records"
     /\ script \in {"OA_ITEM_WISE", "srnjnsr"}
     /\ \A i \in 1..Len(records.items) : HasEmptyOrderLine(records.items[i]))
        => /\ flat_rows.t = "list"
           /\ Len(flat_rows.items) = Len(records.items)

\* The columns of srnjnsr read from an invoice line.
InvoiceColumns ==
    {"Invoice Number", "Invoice Status", "Invoice Subtotal", "Invoice Total",
     "Invoice/Bill Date"}

\* C12: in flatten_records of srnjnsr, an order line whose invoice_lines is
\* empty, False or missing gives exactly one row, and every invoice-derived
\* column of that row is the empty string.
C12_UninvoicedLineRowEmpty ==
    (/\ op = "flatten_records"
     /\ script = "srnjnsr"
     /\ Len(records.items) = 1
     /\ HasPlainOrderLines(records.items[1]))
        => /\ flat_rows.t = "list"
           /\ Len(flat_rows.items) = Len(getitem(records.items[1], "order_line").items)
           /\ \A i \in 1..Len(flat_rows.items), c \in InvoiceColumns :
                getitem(flat_rows.items[i], c) = PyStr("")

\* The invoice lines of an order line, as a sequence (none when the field is
\* missing, empty, False or None).
invoice_lines_of(line) ==
    LET inv == method_get(line, PyStr("invoice_lines"), PyList(<<>>))
    IN  IF inv.t = "list" THEN inv.items ELSE <<>>

\* max(1, number of invoice lines of the order line)
RowCount(line) ==
    IF Len(invoice_lines_of(line)) > 0 THEN Len(invoice_lines_of(line)) ELSE 1

\* The sum of RowCount over a sequence of order lines.
RECURSIVE SumRowCounts(_)
SumRowCounts(lines) ==
    IF Len(lines) = 0 THEN 0 ELSE RowCount(Head(lines)) + SumRowCounts(Tail(lines))

\* The position of the first row of order line i in the rows of its order.
FirstRowOf(lines, i) == SumRowCounts(SubSeq(lines, 1, i - 1)) + 1

\* The record is a sale order whose order_line is a list of mappings.
HasOrderLines(record) ==
    /\ record.t = "dict"
    /\ contains_key(record, "order_line")
    /\ getitem(record, "order_line").t = "list"
    /\ \A l \in 1..Len(getitem(record, "order_line").items) :
            getitem(record, "order_line").items[l].t = "dict"

\* C13: in flatten_records of srnjnsr, an order with order lines L1..Lk gives
\* the sum over i of max(1, number of invoice lines of Li) rows, in order-line
\* order and then invoice-line order; the rows of Li agree on every column
\* that is not an invoice column and carry Li's quantity, and the j-th of
\* them carries the subtotal of Li's j-th invoice line.
C13_RowsPerInvoiceLine ==
    (/\ op = "flatten_records"
     /\ script = "srnjnsr"
     /\ Len(records.items) = 1
     /\ HasOrderLines(records.items[1]))
        => LET lines == getitem(records.items[1], "order_line").items
           IN  /\ flat_rows.t = "list"
               /\ Len(flat_rows.items) = SumRowCounts(lines)
               /\ \A i \in 1..Len(lines) : \A j \in 1..RowCount(lines[i]) :
                    LET row == flat_rows.items[FirstRowOf(lines, i) + j - 1]
                        first == flat_rows.items[FirstRowOf(lines, i)]
                    IN  /\ \A c \in 1..Len(row.items) :
                                row.items[c].k \notin InvoiceColumns
                                    => row.items[c] = first.items[c]
                        /\ getitem(row, "Quantity") =
                                method_get(lines[i], PyStr("product_uom_qty"), PyInt(0))
                        /\ Len(invoice_lines_of(lines[i])) > 0 =>
                                getitem(row, "Invoice Subtotal") =
                                    method_get(invoice_lines_of(lines[i])[j],
                                               PyStr("price_subtotal"), PyInt(0))

(***************************************************************************)
(* Properties of the aggregation step, checked under SpecAggregate.        *)
(***************************************************************************)
\* The state after an aggregation that produced a table.
Aggregated == op = "aggregate" /\ ~IsRaised(grouped) /\ grouped.t = "frame"

\* The table the aggregation groups: FG_Dispatch adds the column Value first.
InputFrame == IF script = "FG_Dispatch" THEN with_Value(dataframe) ELSE dataframe

\* The names of the columns the aggregation sums.
SummedColumns ==
    IF script = "FG_Dispatch" THEN {"FG Balance", "Qty", "Value"}
    ELSE {dataframe.columns[c] :
            c \in {c \in 1..Len(dataframe.columns) :
                      dataframe.dtypes[c] \in {"int64", "float64"}}}

\* The total of the column named name over the rows of df, in tenths.
ColumnTotal(df, name) ==
    sum_tenths([i \in 1..Len(df.data) |-> df.data[i][column_position(df, name)]])

\* C14: in every aggregating script the total of each summed column over the
\* output rows equals its total over the input rows, rows with empty or
\* missing dimension values included.
C14_SumsPreserved ==
    Aggregated =>
        \A name \in SummedColumns :
            ColumnTotal(grouped, name) = ColumnTotal(InputFrame, name)

\* The positions of the dimension columns of the input table: the columns
\* the aggregation groups on.
DimensionColumns ==
    IF script = "FG_Dispatch"
        THEN positions_not_named(InputFrame.columns,
                                 {"FG Balance", "Qty", "Final Price", "Value"}, 1)
    ELSE non_numeric_cols(InputFrame)

\* The distinct tuples of dimension values of the input rows.
InputDimensionTuples ==
    {key_of(InputFrame.data[i], DimensionColumns) : i \in 1..Len(InputFrame.data)}

\* The tuple of dimension values of output row i: the group columns come
\* first in the output.
OutputDimensionTuple(i) ==
    [g \in 1..Len(DimensionColumns) |-> grouped.data[i][g]]

\* C15: the aggregation output has exactly one row per distinct tuple of
\* dimension values of the input: no two output rows agree on all dimension
\* columns, and there are as many output rows as distinct input tuples, so
\* that no rows with different tuples are merged and none is dropped.
C15_OneRowPerDimensionTuple ==
    Aggregated =>
        /\ \A i, j \in 1..Len(grouped.data) :
              OutputDimensionTuple(i) = OutputDimensionTuple(j) => i = j
        /\ Len(grouped.data) = Cardinality(InputDimensionTuples)

\* The state after normalize_dates_and_group was given a table with rows and
\* without a numeric column.
NoMeasureColumn ==
    /\ Aggregated
    /\ script \in {"APR_Combone", "AR_Report"}
    /\ Len(dataframe.data) > 0
    /\ Len(numeric_cols(dataframe)) = 0

\* An output cell holds the value of an input cell: the value itself, or the
\* day of a date string.
SameValue(in, out) ==
    \/ out = in
    \/ in.t = "none" /\ isna(out)
    \/ in.t = "str" /\ out.t = "date" /\ out.s = DateOf(in.s)

SameRow(in, out) ==
    /\ Len(in) = Len(out)
    /\ \A c \in 1..Len(in) : SameValue(in[c], out[c])

\* The distinct rows of the input table.
DistinctInputRows == {dataframe.data[i] : i \in 1..Len(dataframe.data)}

\* C16: without a numeric column normalize_dates_and_group returns the input
\* rows with exact duplicates removed: every output row is an input row,
\* every input row is an output row, and each distinct row appears once.
C16_NoMeasureDeduplicates ==
    NoMeasureColumn =>
        /\ \A i \in 1..Len(grouped.data) :
              \E in \in DistinctInputRows : SameRow(in, grouped.data[i])
        /\ \A in \in DistinctInputRows :
              \E i \in 1..Len(grouped.data) : SameRow(in, grouped.data[i])
        /\ Len(grouped.data) = Cardinality(DistinctInputRows)

(***************************************************************************)
(* Properties of the paginated fetch loops, checked under SpecFetch.       *)
(***************************************************************************)
\* The fetch loops whose errors all end the fetch with an exception.
FetchOf(scripts) == op \in {"fetching", "fetched", "fetch_raised"} /\ script \in scripts

\* The number of requests a fetch of the upstream ends after.
RequestsNeeded == Len(upstream) \div batch_size + 1

\* C17: the fetch loop requests the offsets 0, B, 2B, ... in sequence, the
\* next one only after a page of at least B records and none after a page of
\* fewer than B records; it makes at most floor(N/B)+1 requests and returns
\* after exactly floor(N/B)+1 requests.
C17_PagesRequestedInSequence ==
    FetchOf({"APR_Combone", "AR_Report"}) =>
        /\ \A k \in 1..Len(requests) : requests[k] = (k - 1) * batch_size
        /\ \A k \in 1..(Len(requests) - 1) : Len(pages[k]) >= batch_size
        /\ \A k \in 1..Len(pages) : Len(pages[k]) < batch_size => k = Len(requests)
        /\ Len(requests) <= RequestsNeeded
        /\ op = "fetched" => Len(requests) = RequestsNeeded

\* A fetch of a non-empty upstream that is a multiple of the page size has
\* returned: its last page is empty.
C17_Witness ==
    /\ FetchOf({"APR_Combone", "AR_Report"})
    /\ op = "fetched"
    /\ Len(upstream) = 2 * batch_size
    /\ Len(requests) = 3
    /\ pages[3] = <<>>

\* C18: the list a paginated fetch returns holds every upstream record
\* exactly once, in upstream order, for every page size.
C18_FetchReturnsUpstream ==
    FetchOf({"OA_data_fetch", "oa_export_overseas"}) /\ op = "fetched" =>
        fetched = PyList(upstream)

(***************************************************************************)
(* Properties of the retry loops, checked under SpecRetry.                 *)
(***************************************************************************)
\* The positions of the attempts of a unit of work among the first n.
AttemptsOf(u, n) == {i \in 1..n : attempts[i].unit = u}

\* Attempt i is the last of MAX_RETRIES attempts of its unit, and all of
\* them failed.
ExhaustedAt(i) ==
    /\ Cardinality(AttemptsOf(attempts[i].unit, i)) = MAX_RETRIES
    /\ \A j \in AttemptsOf(attempts[i].unit, i) : ~succeeded(attempts[j].ended)

\* C19: when every attempt of a unit of work has failed, the script ends in
\* an error and makes no further attempt at any work.
C19_ExhaustionIsFatal ==
    op = "retrying" =>
        \A i \in 1..Len(attempts) :
            ExhaustedAt(i) => i = Len(attempts) /\ exit_status = "error"

\* C20: a unit of work is attempted at most MAX_RETRIES times, and never
\* again after an attempt of it has succeeded.
C20_BoundedAttempts ==
    op = "retrying" =>
        /\ \A i \in 1..Len(attempts) :
              Cardinality(AttemptsOf(attempts[i].unit, Len(attempts))) <= MAX_RETRIES
        /\ \A i, j \in 1..Len(attempts) :
              i < j /\ attempts[i].unit = attempts[j].unit
                  => ~succeeded(attempts[i].ended)

\* A script has ended after the second attempt of a unit of work succeeded,
\* the first having failed.
C20_Witness ==
    /\ op = "retrying"
    /\ exit_status = "ok"
    /\ Len(attempts) >= MAX_RETRIES
    /\ attempts[Len(attempts) - 1].unit = attempts[Len(attempts)].unit
    /\ ~succeeded(attempts[Len(attempts) - 1].ended)
    /\ succeeded(attempts[Len(attempts)].ended)

(***************************************************************************)
(* Properties of the sheet writers, checked under SpecPaste.               *)
(***************************************************************************)
\* The cells of the table of this run: the header row and the data rows.
NewTableCells ==
    IF new_rows = 0 THEN {}
    ELSE (1..(new_rows + 1)) \X (1..table_width(script))

\* The cells of the table of the previous run.
OldTableCells ==
    IF old_rows = 0 THEN {}
    ELSE (1..(old_rows + 1)) \X (1..table_width(script))

\* The writer has returned.
PasteReturned == op = "paste" /\ paste_pc \in {"done", "skipped"}

\* C21: when the writer has returned, every cell of the new table holds its
\* value and no other cell holds a cell of the previous run's table, also
\* when the new table is empty or smaller than the previous one.
C21_RegionHoldsNewTable ==
    PasteReturned =>
        \A cell \in Cells :
            IF cell \in NewTableCells THEN worksheet[cell] = "new"
            ELSE worksheet[cell] # "old"

\* C25: the timestamp cell lies to the right of every column of the written
\* table: when the writer is done, every cell of the table still holds its
\* value.
C25_TimestampRightOfTable ==
    op = "paste" /\ paste_pc = "done" /\ timestamp_column(script) # <<>> =>
        /\ column_index(timestamp_column(script)) > table_width(script)
        /\ \A cell \in NewTableCells : worksheet[cell] = "new"

\* The table region holds the complete table of the previous run and no cell
\* of the new one, or the complete new table and no cell of the previous one.
HoldsPreviousTable ==
    \A cell \in Cells :
        IF cell \in OldTableCells THEN worksheet[cell] = "old"
        ELSE worksheet[cell] # "new"

HoldsNewTable ==
    \A cell \in Cells :
        IF cell \in NewTableCells THEN worksheet[cell] = "new"
        ELSE worksheet[cell] # "old"

\* C27: at the end of a run, also of one in which a call of the sheet API
\* failed, the table region holds the complete previous table or the
\* complete new table.
C27_RegionNeverPartial ==
    op = "paste" /\ paste_pc \in {"done", "skipped", "failed"} =>
        HoldsPreviousTable \/ HoldsNewTable

(***************************************************************************)
(* Further properties of the flatteners, checked under SpecFlatten.        *)
(***************************************************************************)
\* C22: every value of every emitted row is a str or a number (int, float):
\* an upstream False or None is never a value of a row.
C22_RowValuesAreScalars ==
    (op = "flatten_records" /\ flat_rows.t = "list") =>
        \A i \in 1..Len(flat_rows.items) :
            \A c \in 1..Len(flat_rows.items[i].items) :
                flat_rows.items[i].items[c].v.t \in {"str", "int", "float"}

has_two_decimals(v) ==
    IF v.t = "mean" THEN (10 * v.sum) % v.count = 0 ELSE TRUE

\* C24: in every aggregating script every numeric value of the aggregated
\* table has at most two decimal digits when the table is handed to the
\* sheet writer.
C24_AggregatesRounded ==
    Aggregated =>
        \A i \in 1..Len(grouped.data), c \in 1..Len(grouped.columns) :
            has_two_decimals(grouped.data[i][c])

\* The value of a measure cell in tenths; a cell that holds no number counts
\* as 0.
measure_tenths(v) ==
    IF v.t \in {"int", "float", "bool"} THEN tenths_of(v) ELSE 0

\* The order lines of the sale orders recs, in order.
RECURSIVE order_lines_of(_)
order_lines_of(recs) ==
    IF Len(recs) = 0 THEN <<>>
    ELSE LET lines == method_get(Head(recs), PyStr("order_line"), PyList(<<>>))
         IN  lines.items \o order_lines_of(Tail(recs))

\* The total of the field named key over the order lines, in tenths.
RECURSIVE line_total(_, _)
line_total(lines, key) ==
    IF Len(lines) = 0 THEN 0
    ELSE measure_tenths(method_get(Head(lines), PyStr(key), PyInt(0)))
            + line_total(Tail(lines), key)

\* The total of the column named name over the rows of the table, in tenths.
RECURSIVE cell_total(_, _)
cell_total(rows, c) ==
    IF Len(rows) = 0 THEN 0
    ELSE measure_tenths(Head(rows)[c]) + cell_total(Tail(rows), c)

\* C26: in srnjnsr_req_OA.py the totals of Quantity and Total over the rows
\* of the aggregated table equal the totals of product_uom_qty and
\* price_total over the order lines fetched, also when an order line has two
\* or more invoice lines.
C26_LineMeasuresPreserved ==
    (Aggregated /\ script = "srnjnsr") =>
        /\ cell_total(grouped.data, column_position(grouped, "Quantity"))
              = line_total(order_lines_of(records.items), "product_uom_qty")
        /\ cell_total(grouped.data, column_position(grouped, "Total"))
              = line_total(order_lines_of(records.items), "price_total")

\* A cell holds text: a str that is not a date or a date and time.
is_text(v) == v.t = "str" /\ DateOf(v.s) = ""

\* C28: normalize_dates_and_group of AR_Report_combine_invoice.py changes
\* date-valued columns only: every text cell of the input table is, with the
\* same value and in the same column, in a row of the output table.
C28_TextColumnsKept ==
    (Aggregated /\ script = "AR_Report") =>
        \A i \in 1..Len(dataframe.data), c \in 1..Len(dataframe.columns) :
            is_text(dataframe.data[i][c]) =>
                \E j \in 1..Len(grouped.data) :
                    grouped.data[j][column_position(grouped, dataframe.columns[c])]
                        = dataframe.data[i][c]

(***************************************************************************)
(* Further properties of the retry loops, checked under SpecRetry.         *)
(***************************************************************************)
\* The list holds no item twice.
NoItemTwice(list) ==
    \A i, j \in 1..Len(list) : list[i] = list[j] => i = j

\* C29: in FG_Dispatch every attempt starts from empty accumulators: after
\* an attempt all_records holds the records of the companies that attempt
\* fetched and nothing of an earlier attempt, each record at most once, and
\* unique_line_ids_for_fallback holds the ids collected from those records.
C29_AttemptsStartEmpty ==
    (op = "retrying" /\ script = "FG_Dispatch" /\ Len(attempts) >= 1) =>
        /\ NoItemTwice(all_records_FG)
        /\ \E n \in 0..Len(companies) :
              /\ all_records_FG = extend_companies(<<>>, records_of_company, n)
              /\ unique_line_ids_for_fallback
                    = add_fallback_ids({}, records_of_company, n)

\* C29 happens: an attempt that had collected the records of both companies
\* failed, and the retry completed with a table of two records or more.
C29_Witness ==
    /\ op = "retrying"
    /\ script = "FG_Dispatch"
    /\ Len(attempts) = 2
    /\ attempts[1].ended = "fetch_invoice_data"
    /\ attempts[2].ended = "completed"
    /\ Len(all_records_FG) >= 2
    /\ unique_line_ids_for_fallback # {}

(***************************************************************************)
(* Properties of the paginated fetches against an upstream that changes,   *)
(* checked under SpecFetchChanging.                                        *)
(***************************************************************************)
\* C30: the list a paginated fetch returns holds no record twice and holds
\* every record that matched the query from the call to the return, also
\* when records are inserted or deleted upstream between page requests.
C30_FetchIsASnapshot ==
    (FetchOf({"APR_Combone", "FG_Dispatch"}) /\ op = "fetched") =>
        /\ NoItemTwice(fetched.items)
        /\ \A r \in matched_throughout :
              \E i \in 1..Len(fetched.items) : fetched.items[i] = r

====
